---- MODULE Spec2Model ----
(***************************************************************************)
(* sqlite-lite: a read-only query engine over one SQLite database file.    *)
(*                                                                         *)
(* The module models                                                       *)
(*   - the command level (load_db, .dbinfo, .tables, SELECT) over files    *)
(*     whose pages are given in decoded form: Spec;                        *)
(*   - the varint decoder over byte sequences: SpecVarint;                 *)
(*   - the leaf-table cell decoder of read_page over byte sequences:       *)
(*     SpecRecord.                                                         *)
(***************************************************************************)
EXTENDS Integers, Sequences, FiniteSets, Bags, TLC

VARIABLES
    file,       \* the database file: header bytes 16/17, page 1 catalog cells, pages
    pc,         \* position of the process: start, loaded, done, failed
    page_size,  \* Database.page_size
    schema,     \* Database.schema (the catalog vector)
    reads,      \* positional reads issued so far: <<offset, length>>
    out,        \* standard output, as a sequence of tokens
    run,        \* what the last command did (statement, plan, keys, results, ...)
    vin,        \* byte sequence handed to parse_varint
    vres,       \* result of parse_varint on vin
    rin,        \* leaf-table cell under decoding: the written row and its bytes
    rres        \* result of the leaf-table cell decoder on rin

vars == <<file, pc, page_size, schema, reads, out, run, vin, vres, rin, rres>>

-----------------------------------------------------------------------------
(* Bounds of the model. *)

MaxRows == 4        \* rowids of the queried table are taken from base+1 .. base+MaxRows
MaxDepth == 4       \* deepest chain of pages a traversal follows
MaxTail == 1        \* bytes that may follow a varint in its input slice
MaxText == 2        \* longest text payload of a written record column
MaxCatalog == 3     \* most rows of a catalog drawn from the pool of rows
MaxCols == 2        \* most columns of the table whose cells the record decoder reads

DB_HEADER_SIZE == 100

-----------------------------------------------------------------------------
(* Generic helpers. *)

(* Results of fallible operations: err is "none", the message of the Err   *)
(* returned, or "panic" when the process aborts.                           *)
NoErr == "none"
Panic == "panic"

Min(S) == CHOOSE x \in S : \A y \in S : x <= y
Max(S) == CHOOSE x \in S : \A y \in S : y <= x

RECURSIVE SortedSeq(_)
SortedSeq(S) == IF S = {} THEN <<>> ELSE <<Min(S)>> \o SortedSeq(S \ {Min(S)})

RECURSIVE Flatten(_)
Flatten(ss) == IF ss = <<>> THEN <<>> ELSE Head(ss) \o Flatten(Tail(ss))

SeqToBag(s) ==
    LET vals == {s[i] : i \in DOMAIN s}
    IN  [v \in vals |-> Cardinality({i \in DOMAIN s : s[i] = v})]

-----------------------------------------------------------------------------
(* record.rs: a decoded column value. The payload v is a sequence: the     *)
(* bytes of a text or blob, the one number of an integer, empty otherwise. *)

Rec(tag, v) == [tag |-> tag, v |-> v]
Null == Rec("Null", <<>>)
Text(bytes) == Rec("Text", bytes)
Int8(n) == Rec("Int8", <<n>>)
Int16(n) == Rec("Int16", <<n>>)
Int24(n) == Rec("Int24", <<n>>)
Int64(n) == Rec("Int64", <<n>>)
Zero == Rec("Zero", <<>>)
One == Rec("One", <<>>)

(* String comparison of Rust: byte-wise lexicographic order. *)
RECURSIVE StrLess(_, _)
StrLess(a, b) ==
    IF b = <<>> THEN FALSE
    ELSE IF a = <<>> THEN TRUE
    ELSE IF Head(a) # Head(b) THEN Head(a) < Head(b)
    ELSE StrLess(Tail(a), Tail(b))

(* Display for Record, as the bytes written to standard output. *)
RECURSIVE Decimal(_)
Decimal(n) ==
    IF n < 0 THEN <<45>> \o Decimal(0 - n)
    ELSE IF n < 10 THEN <<48 + n>>
    ELSE Decimal(n \div 10) \o <<48 + (n % 10)>>

(* The number a sequence of bits stands for, most significant bit first. *)
RECURSIVE BitsToNat(_, _)
BitsToNat(bits, acc) ==
    IF bits = <<>> THEN acc ELSE BitsToNat(Tail(bits), acc * 2 + Head(bits))

Display(r) ==
    CASE r.tag = "Null" -> <<78, 85, 76, 76>>
      [] r.tag = "Zero" -> <<48>>
      [] r.tag = "One" -> <<49>>
      [] r.tag = "Text" -> r.v
      [] r.tag \in {"Int8", "Int16", "Int24", "Int32", "Int64"} -> Decimal(r.v[1])
      [] r.tag = "Int48" -> Decimal(BitsToNat(r.v, 0))
      [] OTHER -> <<63>>

(* The UTF-8 bytes of the object names and literals the program prints. *)
Utf8(s) ==
    CASE s = "t" -> <<116>>
      [] s = "u" -> <<117>>
      [] s = "v" -> <<118>>
      [] s = "w" -> <<119>>
      [] s = "g" -> <<103>>
      [] s = "i" -> <<105>>
      [] s = "j" -> <<106>>
      [] s = "database page size: " ->
            <<100, 97, 116, 97, 98, 97, 115, 101, 32, 112, 97, 103, 101, 32,
              115, 105, 122, 101, 58, 32>>
      [] s = "number of tables: " ->
            <<110, 117, 109, 98, 101, 114, 32, 111, 102, 32, 116, 97, 98, 108,
              101, 115, 58, 32>>
      [] OTHER -> <<63>>

NL == <<10>>
BAR == <<124>>

-----------------------------------------------------------------------------
(* parse_varint (db.rs and page.rs hold the same function). A u64 is kept  *)
(* as its 64 bits, most significant first, so that shifts lose their high  *)
(* bits as they do in the code.                                            *)

ZeroBits(n) == [i \in 1..n |-> 0]

(* The low `width` bits of b, most significant first. *)
RECURSIVE LowBits(_, _)
LowBits(b, width) ==
    IF width = 0 THEN <<>> ELSE LowBits(b \div 2, width - 1) \o <<b % 2>>

U64(b, width) == ZeroBits(64 - width) \o LowBits(b, width)

Shl(bits, n) == SubSeq(bits, n + 1, 64) \o ZeroBits(n)
BitOr(a, b) == [i \in 1..64 |-> IF a[i] = 1 \/ b[i] = 1 THEN 1 ELSE 0]

(* result = (result << 7) | (byte & 0x7F) as u64 *)
VarintStep(result, byte) == BitOr(Shl(result, 7), U64(byte % 128, 7))

VarintResult(err, value, consumed) == [err |-> err, value |-> value, consumed |-> consumed]

RECURSIVE VarintLoop(_, _, _)
VarintLoop(data, idx, result) ==
    IF idx >= Len(data) THEN VarintResult("Varint is incomplete", ZeroBits(64), 0)
    ELSE IF idx >= 10 THEN VarintResult("Varint is too long", ZeroBits(64), 0)
    ELSE LET byte == data[idx + 1]
             next == VarintStep(result, byte)
         IN  IF byte \div 128 = 0 THEN VarintResult(NoErr, next, idx + 1)
             ELSE VarintLoop(data, idx + 1, next)

parse_varint(data) == VarintLoop(data, 0, ZeroBits(64))

(* A u64 as a number, when it is below 2^30; 2^30 stands for all above. *)
as_usize(bits) ==
    IF \E i \in 1..34 : bits[i] = 1 THEN 1073741824 ELSE BitsToNat(SubSeq(bits, 35, 64), 0)

-----------------------------------------------------------------------------
(* read_page, Kind::LeafTable arm: one cell decoded from the bytes of the  *)
(* page that start at its cell pointer.                                    *)

(* The serial type of a record header as a ColumnType [tag, len]. *)
ColumnTypeOf(n) ==
    CASE n = 0 -> [tag |-> "Null", len |-> 0]
      [] n = 1 -> [tag |-> "Int8", len |-> 1]
      [] n = 2 -> [tag |-> "Int16", len |-> 2]
      [] n = 3 -> [tag |-> "Int24", len |-> 3]
      [] n = 4 -> [tag |-> "Int32", len |-> 4]
      [] n = 5 -> [tag |-> "Int48", len |-> 6]
      [] n = 6 -> [tag |-> "Int64", len |-> 8]
      [] n = 7 -> [tag |-> "Float", len |-> 8]
      [] n = 8 -> [tag |-> "Zero", len |-> 0]
      [] n = 9 -> [tag |-> "One", len |-> 0]
      [] n = 10 -> [tag |-> "Reserved1", len |-> 0]
      [] n = 11 -> [tag |-> "Reserved2", len |-> 0]
      [] n >= 12 /\ n % 2 = 0 -> [tag |-> "Blob", len |-> (n - 12) \div 2]
      [] OTHER -> [tag |-> "Text", len |-> (n - 13) \div 2]

(* A big-endian two's-complement integer; the magnitude stays in range for *)
(* the values of the model.                                                *)
RECURSIVE BeUnsigned(_, _)
BeUnsigned(bytes, acc) ==
    IF bytes = <<>> THEN acc ELSE BeUnsigned(Tail(bytes), acc * 256 + Head(bytes))

BeSigned(bytes) ==
    IF bytes[1] >= 128
    THEN 0 - (BeUnsigned([i \in 1..Len(bytes) |-> 255 - bytes[i]], 0) + 1)
    ELSE BeUnsigned(bytes, 0)

(* std::str::from_utf8 accepts: one-byte and two-byte sequences. *)
RECURSIVE IsUtf8(_)
IsUtf8(bytes) ==
    IF bytes = <<>> THEN TRUE
    ELSE IF bytes[1] < 128 THEN IsUtf8(Tail(bytes))
    ELSE IF bytes[1] >= 194 /\ bytes[1] <= 223 /\ Len(bytes) >= 2
            /\ bytes[2] >= 128 /\ bytes[2] <= 191
         THEN IsUtf8(SubSeq(bytes, 3, Len(bytes)))
    ELSE FALSE

Drop(bytes, n) == SubSeq(bytes, n + 1, Len(bytes))

(* The while loop over the record header: the column types, and the cell   *)
(* slice left after them.                                                  *)
RECURSIVE HeaderLoop(_, _, _, _)
HeaderLoop(cell, cur_header_size, rec_header_size, col_types) ==
    IF ~(cur_header_size < rec_header_size)
    THEN [err |-> NoErr, col_types |-> col_types, cell |-> cell]
    ELSE LET v == parse_varint(cell)
         IN  IF v.err # NoErr THEN [err |-> v.err, col_types |-> col_types, cell |-> cell]
             ELSE HeaderLoop(Drop(cell, v.consumed), cur_header_size + v.consumed,
                             rec_header_size,
                             Append(col_types, ColumnTypeOf(as_usize(v.value))))

(* A widening that fills the two high bytes with the sign of the third. *)
i64_from_be_bytes_SignExtended(bytes) ==
    Flatten([i \in 1..8 |->
                LowBits(IF i <= 2 /\ bytes[3] >= 128 THEN 255 ELSE bytes[i], 8)])

(* i64::from_be_bytes: the i64 as its 64 bits, most significant first, the *)
(* first being the sign.                                                   *)
i64_from_be_bytes(bytes) == Flatten([i \in 1..8 |-> LowBits(bytes[i], 8)])

(* One column materialised from the payload: the value and the bytes used. *)
(* A 48-bit integer is kept as the 64 bits of its i64.                     *)
ColumnValue(col, cell, idx, id) ==
    CASE col.tag = "Null" ->
            [err |-> NoErr, used |-> 0, value |-> IF idx = 0 THEN Int64(id) ELSE Null]
      [] col.tag \in {"Zero", "One", "Reserved1", "Reserved2"} ->
            [err |-> NoErr, used |-> 0, value |-> Rec(col.tag, <<>>)]
      [] col.tag \in {"Int8", "Int16", "Int24", "Int32", "Int64"} ->
            IF Len(cell) < col.len THEN [err |-> "nom", used |-> 0, value |-> Null]
            ELSE [err |-> NoErr, used |-> col.len,
                  value |-> Rec(col.tag, <<BeSigned(SubSeq(cell, 1, col.len))>>)]
      [] col.tag = "Float" ->
            IF Len(cell) < col.len THEN [err |-> "nom", used |-> 0, value |-> Null]
            ELSE [err |-> NoErr, used |-> col.len, value |-> Rec("Float", SubSeq(cell, 1, col.len))]
      [] col.tag = "Int48" ->
            IF Len(cell) < 6 THEN [err |-> Panic, used |-> 0, value |-> Null]
            ELSE [err |-> NoErr, used |-> 6,
                  value |-> Rec("Int48", i64_from_be_bytes(<<0, 0>> \o SubSeq(cell, 1, 6)))]
      [] col.tag = "Blob" ->
            IF Len(cell) < col.len THEN [err |-> Panic, used |-> 0, value |-> Null]
            ELSE [err |-> NoErr, used |-> col.len, value |-> Rec("Blob", SubSeq(cell, 1, col.len))]
      [] OTHER ->
            IF Len(cell) < col.len THEN [err |-> Panic, used |-> 0, value |-> Null]
            ELSE IF ~IsUtf8(SubSeq(cell, 1, col.len))
                 THEN [err |-> "utf8", used |-> 0, value |-> Null]
            ELSE [err |-> NoErr, used |-> col.len, value |-> Text(SubSeq(cell, 1, col.len))]

RECURSIVE ValuesLoop(_, _, _, _, _)
ValuesLoop(col_types, cell, idx, id, values) ==
    IF idx >= Len(col_types) THEN [err |-> NoErr, values |-> values]
    ELSE LET c == ColumnValue(col_types[idx + 1], cell, idx, id)
         IN  IF c.err # NoErr THEN [err |-> c.err, values |-> values]
             ELSE ValuesLoop(col_types, Drop(cell, c.used), idx + 1, id, Append(values, c.value))

CellResult(err, row_id, values) == [err |-> err, row_id |-> row_id, values |-> values]

DecodeLeafTableBytes(cell) ==
    LET length == parse_varint(cell)
        cell1 == Drop(cell, length.consumed)
        id == parse_varint(cell1)
        cell2 == Drop(cell1, id.consumed)
        rec_header_size == parse_varint(cell2)
        cell3 == Drop(cell2, rec_header_size.consumed)
        hdr == HeaderLoop(cell3, rec_header_size.consumed, as_usize(rec_header_size.value), <<>>)
        vals == ValuesLoop(hdr.col_types, hdr.cell, 0, as_usize(id.value), <<>>)
    IN  IF length.err # NoErr THEN CellResult(length.err, 0, <<>>)
        ELSE IF id.err # NoErr THEN CellResult(id.err, 0, <<>>)
        ELSE IF rec_header_size.err # NoErr THEN CellResult(rec_header_size.err, 0, <<>>)
        ELSE IF hdr.err # NoErr THEN CellResult(hdr.err, 0, <<>>)
        ELSE CellResult(vals.err, as_usize(id.value), vals.values)

-----------------------------------------------------------------------------
(* Pages in decoded form, and the files the model runs on.                 *)
(* A page is [kind, rmptr, cells]; a leaf-table cell is [row_id, cols]     *)
(* with cols the stored columns; an interior-table cell is                 *)
(* [left_child, row_id]; an index cell is [left_child, keys].              *)

Page(kind, rmptr, cells) == [kind |-> kind, rmptr |-> rmptr, cells |-> cells]

(* Where the files of the model keep their B-trees. Page 1 is the catalog. *)
PageNo == [table |-> 2, index |-> 3, other |-> 4, free |-> 5]
TableRoot == PageNo.table
IndexRoot == PageNo.index
OtherRoot == PageNo.other
FirstFree == PageNo.free

(* The serial type SQLite picks for an integer of a record. *)
IntRecord(n) ==
    IF n = 0 THEN Zero
    ELSE IF n = 1 THEN One
    ELSE IF n >= -128 /\ n <= 127 THEN Int8(n)
    ELSE IF n >= -32768 /\ n <= 32767 THEN Int16(n)
    ELSE Int24(n)

TextA == Text(<<97>>)
TextB == Text(<<98>>)
TextX == Text(<<120>>)

DdlColumns(ddl) == IF ddl = "ipk" THEN <<"id", "c">> ELSE <<"c", "d">>
IndexedPos(ddl) == IF ddl = "ipk" THEN 2 ELSE 1

StoredCols(ddl, cval) == IF ddl = "ipk" THEN <<Null, cval>> ELSE <<cval, TextX>>

(* The rows of the table, in rowid order. *)
RowsOf(ddl, vals) ==
    LET ids == SortedSeq(DOMAIN vals)
    IN  [i \in 1..Len(ids) |-> [row_id |-> ids[i], cols |-> StoredCols(ddl, vals[ids[i]])]]

LeafCount(n, chunk) == IF n = 0 THEN 1 ELSE (n + chunk - 1) \div chunk
LeafRows(rows, chunk, i) ==
    SubSeq(rows, (i - 1) * chunk + 1, IF i * chunk < Len(rows) THEN i * chunk ELSE Len(rows))

GroupCount(L, fanout) == IF L <= fanout THEN 1 ELSE L \div fanout
GroupFirst(fanout, j) == (j - 1) * fanout + 1
GroupLast(L, fanout, j) == IF j = GroupCount(L, fanout) THEN L ELSE j * fanout

(* An interior table page over children given as [page, lo, hi]: the cell  *)
(* of a child carries the largest rowid of its subtree, or with slack the  *)
(* largest rowid that is still below the next subtree.                     *)
InteriorOver(children, slack) ==
    LET m == Len(children)
    IN  Page("InteriorTable", children[m].page,
             [i \in 1..(m - 1) |->
                 [left_child |-> children[i].page,
                  row_id |-> IF slack THEN children[i + 1].lo - 1 ELSE children[i].hi]])

TablePages(rows, chunk, fanout, slack) ==
    LET n == Len(rows)
        L == LeafCount(n, chunk)
        g == GroupCount(L, fanout)
        leafBase == IF g > 1 THEN FirstFree + g - 1 ELSE FirstFree - 1
        leafPage(i) == Page("LeafTable", 0, LeafRows(rows, chunk, i))
        leafInfo(i) == [page |-> leafBase + i,
                        lo |-> LeafRows(rows, chunk, i)[1].row_id,
                        hi |-> LeafRows(rows, chunk, i)[Len(LeafRows(rows, chunk, i))].row_id]
        groupKids(j) == [k \in 1..(GroupLast(L, fanout, j) - GroupFirst(fanout, j) + 1) |->
                            leafInfo(GroupFirst(fanout, j) + k - 1)]
        groupInfo(j) == [page |-> FirstFree + j - 1,
                         lo |-> leafInfo(GroupFirst(fanout, j)).lo,
                         hi |-> leafInfo(GroupLast(L, fanout, j)).hi]
    IN  IF L = 1 THEN TableRoot :> leafPage(1)
        ELSE IF g = 1
             THEN (TableRoot :> InteriorOver(groupKids(1), slack))
                  @@ [p \in (leafBase + 1)..(leafBase + L) |-> leafPage(p - leafBase)]
             ELSE (TableRoot :> InteriorOver([j \in 1..g |-> groupInfo(j)], slack))
                  @@ [p \in FirstFree..(FirstFree + g - 1) |->
                         InteriorOver(groupKids(p - FirstFree + 1), slack)]
                  @@ [p \in (leafBase + 1)..(leafBase + L) |-> leafPage(p - leafBase)]

TablePageCount(n, chunk, fanout) ==
    LET L == LeafCount(n, chunk)
        g == GroupCount(L, fanout)
    IN  (IF g > 1 THEN g ELSE 0) + (IF L > 1 THEN L ELSE 0)

(* The index on the indexed column: one entry <<key, rowid>> per row, in   *)
(* key order and then rowid order (NULL keys first).                       *)
KeyLess(a, b) ==
    IF a.tag = "Null" THEN b.tag # "Null"
    ELSE IF b.tag = "Null" THEN FALSE
    ELSE StrLess(a.v, b.v)

EntryLess(r, q, pos) ==
    \/ KeyLess(r.cols[pos], q.cols[pos])
    \/ r.cols[pos] = q.cols[pos] /\ r.row_id < q.row_id

RECURSIVE SortedEntries(_, _)
SortedEntries(rowset, pos) ==
    IF rowset = {} THEN <<>>
    ELSE LET r == CHOOSE r \in rowset : \A q \in rowset \ {r} : EntryLess(r, q, pos)
         IN  <<[keys |-> <<r.cols[pos], IntRecord(r.row_id)>>]>>
             \o SortedEntries(rowset \ {r}, pos)

(* Entry i of the index is kept on the interior root iff it closes a full  *)
(* leaf of idxchunk entries and is not the last entry.                     *)
IsSeparator(i, e, idxchunk) == i % (idxchunk + 1) = 0 /\ i < e

IndexPages(entries, idxchunk, base) ==
    LET e == Len(entries)
        seps == {i \in 1..e : IsSeparator(i, e, idxchunk)}
        k == Cardinality(seps)
        leafEntries(j) ==
            SubSeq(entries, (j - 1) * (idxchunk + 1) + 1,
                   IF j * (idxchunk + 1) - 1 < e THEN j * (idxchunk + 1) - 1 ELSE e)
    IN  IF k = 0 THEN IndexRoot :> Page("LeafIndex", 0, entries)
        ELSE (IndexRoot :>
                 Page("InteriorIndex", base + k + 1,
                      [j \in 1..k |->
                          [left_child |-> base + j,
                           keys |-> entries[j * (idxchunk + 1)].keys]]))
             @@ [p \in (base + 1)..(base + k + 1) |->
                    Page("LeafIndex", 0, leafEntries(p - base))]

(* The CREATE statements of the catalog, as the parser reads them. *)
CreateTable(table, columns) ==
    [form |-> "CreateTable", table |-> table, columns |-> columns]
CreateIndex(table, columns) ==
    [form |-> "CreateIndex", table |-> table, columns |-> columns]
NoSql == [form |-> "other", table |-> "", columns |-> <<>>]

(* A cell of page 1: the five stored columns of a sqlite_schema row. *)
CatalogCell(type, name, tbl_name, rootpage, sql) ==
    [type |-> type, name |-> name, tbl_name |-> tbl_name, rootpage |-> rootpage, sql |-> sql]

CText(s) == [tag |-> "Text", s |-> s]

RowT(ddl) == CatalogCell(CText("table"), "t", "t", Int8(TableRoot), CreateTable("t", DdlColumns(ddl)))
RowI == CatalogCell(CText("index"), "i", "t", Int8(IndexRoot), CreateIndex("t", <<"c">>))
RowU == CatalogCell(CText("table"), "u", "u", Int8(OtherRoot), CreateTable("u", <<"c">>))
RowJ == CatalogCell(CText("index"), "j", "u", Int8(IndexRoot), CreateIndex("u", <<"c">>))
RowV == CatalogCell(CText("view"), "v", "v", Int8(0), NoSql)
RowG == CatalogCell(CText("trigger"), "g", "t", Int8(0), NoSql)
RowW == CatalogCell(CText("view"), "w", "w", Zero, NoSql)

(* A file: the two page-size bytes of the header, and its pages. Page 1    *)
(* holds the catalog cells; the table B-tree, the index B-tree and the     *)
(* one-leaf table u follow, whether or not the catalog lists them.         *)
MakeFile(h16, h17, catalog, ddl, vals, chunk, fanout, slack, idxchunk) ==
    LET rows == RowsOf(ddl, vals)
        rowset == {rows[i] : i \in DOMAIN rows}
        idxBase == FirstFree - 1 + TablePageCount(Len(rows), chunk, fanout)
    IN  [hdr16 |-> h16, hdr17 |-> h17,
         pages |-> (1 :> Page("LeafTable", 0, catalog))
                   @@ TablePages(rows, chunk, fanout, slack)
                   @@ IndexPages(SortedEntries(rowset, IndexedPos(ddl)), idxchunk, idxBase)
                   @@ (OtherRoot :> Page("LeafTable", 0, <<>>))]

FilePageSize(f) == f.hdr16 * 256 + f.hdr17
FileLen(f) == FilePageSize(f) * Cardinality(DOMAIN f.pages)

-----------------------------------------------------------------------------
(* File::read_exact_at: the bytes at offset, which the model keeps as the  *)
(* decoded page placed there; a short read is an error.                    *)
read_exact_at(f, offset, len) ==
    IF offset + len > FileLen(f) THEN [err |-> "io", page |-> Page("none", 0, <<>>)]
    ELSE IF len = FilePageSize(f) /\ offset % len = 0
         THEN [err |-> NoErr, page |-> f.pages[(offset \div len) + 1]]
         ELSE [err |-> NoErr, page |-> Page("garbage", 0, <<>>)]

(* read_page, record part for a leaf-table cell: one value per stored      *)
(* column; a NULL at index 0 becomes Int64(row_id).                        *)
DecodeLeafTableCell(cell) ==
    [row_id |-> cell.row_id,
     values |-> [i \in 1..Len(cell.cols) |->
                    IF cell.cols[i].tag = "Null" /\ i = 1
                    THEN Int64(cell.row_id)
                    ELSE cell.cols[i]]]

read_page(page_num) ==
    IF page_num < 1 THEN [err |-> Panic, page |-> Page("none", 0, <<>>)]
    ELSE LET r == read_exact_at(file, (page_num - 1) * page_size, page_size)
         IN  IF r.err # NoErr THEN r
             ELSE IF r.page.kind \notin {"InteriorIndex", "InteriorTable", "LeafIndex", "LeafTable"}
                  THEN [err |-> "Invalid page kind", page |-> r.page]
             ELSE IF r.page.kind = "LeafTable"
                  THEN [err |-> NoErr,
                        page |-> Page("LeafTable", 0,
                                      [i \in 1..Len(r.page.cells) |->
                                          DecodeLeafTableCell(r.page.cells[i])])]
             ELSE r

(* sql.rs: the statement a DDL text parses to, or an error. *)
parse_sql(sql) ==
    IF sql.form \in {"CreateTable", "CreateIndex", "Select"}
    THEN [ok |-> TRUE, stmt |-> sql]
    ELSE [ok |-> FALSE, stmt |-> sql]

-----------------------------------------------------------------------------
(* DbLoader::read_schema: the catalog vector from the cells of page 1.     *)

SchemaKind(s) ==
    CASE s = "table" -> "Table"
      [] s = "index" -> "Index"
      [] s = "view" -> "View"
      [] s = "trigger" -> "Trigger"
      [] OTHER -> "invalid"

SchemaRowErr(cell) ==
    IF ~(cell.type.tag = "Text" /\ cell.rootpage.tag \in {"Int8", "Int24"})
    THEN "Invalid schema"
    ELSE IF SchemaKind(cell.type.s) = "invalid" THEN "Invalid kind"
    ELSE NoErr

SchemaRow(cell) ==
    [kind |-> SchemaKind(cell.type.s), name |-> cell.name, tbl_name |-> cell.tbl_name,
     rootpage |-> cell.rootpage.v[1], sql |-> cell.sql]

read_schema(f, psz) ==
    LET r == read_exact_at(f, 0, psz)
    IN  IF r.err # NoErr THEN [err |-> r.err, schema |-> <<>>]
        ELSE IF psz < DB_HEADER_SIZE + 8 THEN [err |-> Panic, schema |-> <<>>]
        ELSE IF r.page.kind = "InteriorTable" THEN [err |-> Panic, schema |-> <<>>]
        ELSE IF r.page.kind # "LeafTable" THEN [err |-> "Invalid schema page kind", schema |-> <<>>]
        ELSE LET bad == {i \in 1..Len(r.page.cells) : SchemaRowErr(r.page.cells[i]) # NoErr}
             IN  IF bad # {}
                 THEN [err |-> SchemaRowErr(r.page.cells[Min(bad)]), schema |-> <<>>]
                 ELSE [err |-> NoErr,
                       schema |-> [i \in 1..Len(r.page.cells) |-> SchemaRow(r.page.cells[i])]]

-----------------------------------------------------------------------------
(* Statements: Select{table, columns, condition}.                          *)

Select(table, columns, cond) == [table |-> table, columns |-> columns, cond |-> cond]
NoCond == [has |-> FALSE, column |-> "", value |-> <<>>]
Equals(column, value) == [has |-> TRUE, column |-> column, value |-> value]

(* str::to_lowercase on the column names of the model. *)
to_lowercase(s) ==
    CASE s = "COUNT(*)" -> "count(*)"
      [] s = "Count(*)" -> "count(*)"
      [] OTHER -> s

IsCountStar(col) == to_lowercase(col) = "count(*)"

(* Iterator::position: the first index at which name stands, 0 for None. *)
position(columns, name) ==
    LET hits == {i \in 1..Len(columns) : columns[i] = name}
    IN  IF hits = {} THEN 0 ELSE Min(hits)

get_schema(table_name) ==
    LET hits == {i \in 1..Len(schema) :
                    schema[i].name = table_name /\ schema[i].kind = "Table"}
    IN  IF hits = {} THEN [err |-> "Table not found", row |-> 0]
        ELSE [err |-> NoErr, row |-> Min(hits)]

get_table_rootpage(table_name) ==
    LET s == get_schema(table_name)
    IN  IF s.err # NoErr THEN [err |-> s.err, rootpage |-> 0]
        ELSE [err |-> NoErr, rootpage |-> schema[s.row].rootpage]

(* A lookup that takes the first index with the column, of any table. *)
get_index_rootpage_AnyTable(tbl_name, column_name) ==
    LET hits == {i \in 1..Len(schema) :
                    /\ schema[i].kind = "Index"
                    /\ parse_sql(schema[i].sql).ok
                    /\ parse_sql(schema[i].sql).stmt.form = "CreateIndex"
                    /\ position(parse_sql(schema[i].sql).stmt.columns, column_name) # 0}
    IN  IF hits = {} THEN [some |-> FALSE, rootpage |-> 0]
        ELSE [some |-> TRUE, rootpage |-> schema[Min(hits)].rootpage]

(* get_index_rootpage: the rootpage of the first index row on tbl_name     *)
(* whose DDL parses as CREATE INDEX with column_name in its list; 0 for    *)
(* None.                                                                   *)
get_index_rootpage(tbl_name, column_name) ==
    LET hits == {i \in 1..Len(schema) :
                    /\ schema[i].kind = "Index"
                    /\ schema[i].tbl_name = tbl_name
                    /\ parse_sql(schema[i].sql).ok
                    /\ parse_sql(schema[i].sql).stmt.form = "CreateIndex"
                    /\ position(parse_sql(schema[i].sql).stmt.columns, column_name) # 0}
    IN  IF hits = {} THEN [some |-> FALSE, rootpage |-> 0]
        ELSE [some |-> TRUE, rootpage |-> schema[Min(hits)].rootpage]

(* The values a leaf cell adds to results for the select list: the loop of *)
(* execute_select and execute_select_with_index over selected_cols.        *)
RECURSIVE Project(_, _, _, _)
Project(cell, selected_cols, columns, i) ==
    IF i > Len(selected_cols) THEN [err |-> NoErr, results |-> <<>>]
    ELSE IF IsCountStar(selected_cols[i]) THEN Project(cell, selected_cols, columns, i + 1)
    ELSE LET col_idx == position(columns, selected_cols[i])
         IN  IF col_idx = 0 THEN [err |-> "nonexistent column", results |-> <<>>]
             ELSE IF col_idx > Len(cell.values) THEN [err |-> Panic, results |-> <<>>]
             ELSE LET rest == Project(cell, selected_cols, columns, i + 1)
                  IN  [err |-> rest.err, results |-> <<cell.values[col_idx]>> \o rest.results]

(* The loop over the filtered cells of a leaf. *)
RECURSIVE ProjectCells(_, _, _, _)
ProjectCells(cells, selected_cols, columns, i) ==
    IF i > Len(cells) THEN [err |-> NoErr, results |-> <<>>, visited |-> <<>>]
    ELSE LET one == Project(cells[i], selected_cols, columns, 1)
         IN  IF one.err # NoErr
             THEN [err |-> one.err, results |-> <<>>, visited |-> <<cells[i].row_id>>]
             ELSE LET rest == ProjectCells(cells, selected_cols, columns, i + 1)
                  IN  [err |-> rest.err,
                       results |-> one.results \o rest.results,
                       visited |-> <<cells[i].row_id>> \o rest.visited]

(* The filter closure of execute_select on one cell: "keep", "drop", or    *)
(* "panic" (unwrap of None, index out of range, unimplemented!).           *)
FilterCell(cell, columns, cond) ==
    IF ~cond.has THEN "keep"
    ELSE LET col_idx == position(columns, cond.column)
         IN  IF col_idx = 0 \/ col_idx > Len(cell.values) THEN "panic"
             ELSE IF cell.values[col_idx].tag = "Text"
                  THEN (IF cell.values[col_idx].v = cond.value THEN "keep" ELSE "drop")
             ELSE IF cell.values[col_idx].tag = "Null" THEN "drop"
             ELSE "panic"

ScanResult(err, count, results, visited, trace) ==
    [err |-> err, count |-> count, results |-> results, visited |-> visited, trace |-> trace]

(* A scan order that takes the right-most child before the cells. *)
TableChildren_RightFirst(page) ==
    <<page.rmptr>> \o [i \in 1..Len(page.cells) |-> page.cells[i].left_child]

(* The children an InteriorTable page is scanned through, in scan order:   *)
(* each cell's left_child in array order, then rmptr.                      *)
TableChildren(page) ==
    [i \in 1..Len(page.cells) |-> page.cells[i].left_child] \o <<page.rmptr>>

(* execute_select: the full scan, with the per-row filter. depth is the    *)
(* stack left; the process aborts when it runs out.                        *)
RECURSIVE execute_select(_, _, _)
RECURSIVE ScanChildren(_, _, _, _)

ScanLeaf(statement, page_num, cells, columns) ==
    LET verdict == [i \in 1..Len(cells) |-> FilterCell(cells[i], columns, statement.cond)]
        kept == SelectSeq([i \in 1..Len(cells) |-> [cell |-> cells[i], verdict |-> verdict[i]]],
                          LAMBDA x : x.verdict = "keep")
        keptCells == [i \in 1..Len(kept) |-> kept[i].cell]
        pr == ProjectCells(keptCells, statement.columns, columns, 1)
    IN  IF \E i \in 1..Len(cells) : verdict[i] = "panic"
        THEN ScanResult(Panic, 0, <<>>, <<>>, <<page_num>>)
        ELSE ScanResult(pr.err, Len(pr.visited), pr.results, pr.visited, <<page_num>>)

execute_select(statement, page_num, depth) ==
    IF depth = 0 THEN ScanResult(Panic, 0, <<>>, <<>>, <<>>)
    ELSE
    LET rp == read_page(page_num)
        sc == get_schema(statement.table)
        cs == parse_sql(schema[sc.row].sql)
    IN  IF rp.err # NoErr THEN ScanResult(rp.err, 0, <<>>, <<>>, <<page_num>>)
        ELSE IF sc.err # NoErr THEN ScanResult(sc.err, 0, <<>>, <<>>, <<page_num>>)
        ELSE IF ~cs.ok THEN ScanResult("parse error", 0, <<>>, <<>>, <<page_num>>)
        ELSE IF cs.stmt.form # "CreateTable" THEN ScanResult(NoErr, 0, <<>>, <<>>, <<page_num>>)
        ELSE IF rp.page.kind = "LeafTable"
             THEN ScanLeaf(statement, page_num, rp.page.cells, cs.stmt.columns)
        ELSE IF rp.page.kind = "InteriorTable"
             THEN LET sub == ScanChildren(statement, TableChildren(rp.page), 1, depth - 1)
                  IN  ScanResult(sub.err, sub.count, sub.results, sub.visited,
                                 <<page_num>> \o sub.trace)
        ELSE ScanResult("Invalid page type", 0, <<>>, <<>>, <<page_num>>)

ScanChildren(statement, children, i, depth) ==
    IF i > Len(children) THEN ScanResult(NoErr, 0, <<>>, <<>>, <<>>)
    ELSE LET one == execute_select(statement, children[i], depth)
         IN  IF one.err # NoErr THEN one
             ELSE LET rest == ScanChildren(statement, children, i + 1, depth)
                  IN  ScanResult(rest.err, one.count + rest.count,
                                 one.results \o rest.results,
                                 one.visited \o rest.visited,
                                 one.trace \o rest.trace)

-----------------------------------------------------------------------------
(* execute_index: the index probe.                                         *)

ProbeResult(err, keys, trace) == [err |-> err, keys |-> keys, trace |-> trace]

(* slice::chunks(2) *)
RECURSIVE chunks2(_)
chunks2(keys) ==
    IF keys = <<>> THEN <<>>
    ELSE IF Len(keys) = 1 THEN <<keys>>
    ELSE <<SubSeq(keys, 1, 2)>> \o chunks2(SubSeq(keys, 3, Len(keys)))

(* The chunks of the cells of a page, in order, each with the left child   *)
(* of its cell.                                                            *)
RECURSIVE CellChunks(_, _)
CellChunks(cells, i) ==
    IF i > Len(cells) THEN <<>>
    ELSE LET cs == chunks2(cells[i].keys)
         IN  [j \in 1..Len(cs) |-> [key |-> cs[j], left_child |-> cells[i].left_child]]
             \o CellChunks(cells, i + 1)

(* The closure of the LeafIndex arm on one chunk: the rowids it pushes.    *)
LeafChunkKeys(key, value) ==
    IF key[1].tag = "Text" /\ key[1].v = value
    THEN (IF Len(key) < 2 THEN [err |-> Panic, keys |-> <<>>]
          ELSE IF key[2].tag = "Int24" THEN [err |-> NoErr, keys |-> <<key[2].v[1]>>]
          ELSE [err |-> NoErr, keys |-> <<>>])
    ELSE [err |-> NoErr, keys |-> <<>>]

RECURSIVE LeafIndexKeys(_, _, _)
LeafIndexKeys(chunks, value, i) ==
    IF i > Len(chunks) THEN [err |-> NoErr, keys |-> <<>>]
    ELSE LET one == LeafChunkKeys(chunks[i].key, value)
         IN  IF one.err # NoErr THEN one
             ELSE LET rest == LeafIndexKeys(chunks, value, i + 1)
                  IN  [err |-> rest.err, keys |-> one.keys \o rest.keys]

RECURSIVE execute_index(_, _, _)
RECURSIVE ProbeChunks(_, _, _, _)

execute_index(page_num, value, depth) ==
    IF depth = 0 THEN ProbeResult(Panic, <<>>, <<>>)
    ELSE
    LET rp == read_page(page_num)
    IN  IF rp.err # NoErr THEN ProbeResult(rp.err, <<>>, <<page_num>>)
        ELSE IF rp.page.kind = "InteriorIndex"
             THEN LET body == ProbeChunks(CellChunks(rp.page.cells, 1), value, 1, depth - 1)
                  IN  IF body.err # NoErr
                      THEN ProbeResult(body.err, body.keys, <<page_num>> \o body.trace)
                      ELSE LET last == execute_index(rp.page.rmptr, value, depth - 1)
                           IN  ProbeResult(last.err, body.keys \o last.keys,
                                           <<page_num>> \o body.trace \o last.trace)
        ELSE IF rp.page.kind = "LeafIndex"
             THEN LET ks == LeafIndexKeys(
                                CellChunks([i \in 1..Len(rp.page.cells) |->
                                               [keys |-> rp.page.cells[i].keys, left_child |-> 0]], 1),
                                value, 1)
                  IN  ProbeResult(ks.err, ks.keys, <<page_num>>)
        ELSE ProbeResult("Invalid page type", <<>>, <<page_num>>)

(* The loop of the InteriorIndex arm over the chunks of its cells. *)
ProbeChunks(chunks, value, i, depth) ==
    IF i > Len(chunks) THEN ProbeResult(NoErr, <<>>, <<>>)
    ELSE LET key == chunks[i].key
             rest == ProbeChunks(chunks, value, i + 1, depth)
         IN  IF key[1].tag # "Text" THEN rest
             ELSE IF StrLess(value, key[1].v)
                  THEN LET sub == execute_index(chunks[i].left_child, value, depth)
                       IN  IF sub.err # NoErr THEN sub
                           ELSE ProbeResult(rest.err, sub.keys \o rest.keys,
                                            sub.trace \o rest.trace)
             ELSE IF value = key[1].v
                  THEN IF Len(key) < 2 THEN ProbeResult(Panic, <<>>, <<>>)
                       ELSE IF key[2].tag # "Int24"
                            THEN ProbeResult("Invalid record type", <<>>, <<>>)
                       ELSE LET sub == execute_index(chunks[i].left_child, value, depth)
                            IN  IF sub.err # NoErr
                                THEN ProbeResult(sub.err, <<key[2].v[1]>> \o sub.keys, sub.trace)
                                ELSE ProbeResult(rest.err,
                                                 <<key[2].v[1]>> \o sub.keys \o rest.keys,
                                                 sub.trace \o rest.trace)
             ELSE rest

-----------------------------------------------------------------------------
(* execute_select_with_index: the rowid-directed descent.                  *)

FetchResult(err, results, visited, trace) ==
    [err |-> err, results |-> results, visited |-> visited, trace |-> trace]

contains(keys, key) == \E i \in 1..Len(keys) : keys[i] = key

(* The filter closure of the LeafTable arm. *)
KeyedCell(cell, keys) ==
    cell.values[1].tag = "Int64" /\ contains(keys, cell.values[1].v[1])

(* The children of an interior table page the descent goes into, in the    *)
(* order it does.                                                          *)
DescentChildren(page, keys) ==
    LET cells == page.cells
        k == Len(cells)
        first == IF \E i \in 1..Len(keys) : keys[i] < cells[1].row_id
                 THEN <<cells[1].left_child>> ELSE <<>>
        window(w) == IF \E i \in 1..Len(keys) :
                            keys[i] < cells[w + 1].row_id /\ keys[i] >= cells[w].row_id
                     THEN <<cells[w + 1].left_child>> ELSE <<>>
        last == IF \E i \in 1..Len(keys) : keys[i] > cells[k].row_id
                THEN <<page.rmptr>> ELSE <<>>
    IN  first \o Flatten([w \in 1..(k - 1) |-> window(w)]) \o last

RECURSIVE execute_select_with_index(_, _, _, _)
RECURSIVE FetchChildren(_, _, _, _, _)

FetchLeaf(statement, page_num, cells, keys) ==
    LET sc == get_schema(statement.table)
        cs == parse_sql(schema[sc.row].sql)
        kept == SelectSeq(cells, LAMBDA c : KeyedCell(c, keys))
        pr == ProjectCells(kept, statement.columns, cs.stmt.columns, 1)
    IN  IF sc.err # NoErr THEN FetchResult(sc.err, <<>>, <<>>, <<page_num>>)
        ELSE IF ~cs.ok THEN FetchResult("parse error", <<>>, <<>>, <<page_num>>)
        ELSE IF cs.stmt.form # "CreateTable" THEN FetchResult(NoErr, <<>>, <<>>, <<page_num>>)
        ELSE IF \E i \in 1..Len(cells) : Len(cells[i].values) = 0
             THEN FetchResult(Panic, <<>>, <<>>, <<page_num>>)
        ELSE FetchResult(pr.err, pr.results, pr.visited, <<page_num>>)

execute_select_with_index(statement, page_num, keys, depth) ==
    IF depth = 0 THEN FetchResult(Panic, <<>>, <<>>, <<>>)
    ELSE
    LET rp == read_page(page_num)
    IN  IF rp.err # NoErr THEN FetchResult(rp.err, <<>>, <<>>, <<page_num>>)
        ELSE IF rp.page.kind = "LeafTable"
             THEN FetchLeaf(statement, page_num, rp.page.cells, keys)
        ELSE IF rp.page.kind = "InteriorTable"
             THEN IF Len(rp.page.cells) = 0 THEN FetchResult(Panic, <<>>, <<>>, <<page_num>>)
                  ELSE LET sub == FetchChildren(statement, DescentChildren(rp.page, keys),
                                                keys, 1, depth - 1)
                       IN  FetchResult(sub.err, sub.results, sub.visited,
                                       <<page_num>> \o sub.trace)
        ELSE FetchResult(Panic, <<>>, <<>>, <<page_num>>)

FetchChildren(statement, children, keys, i, depth) ==
    IF i > Len(children) THEN FetchResult(NoErr, <<>>, <<>>, <<>>)
    ELSE LET one == execute_select_with_index(statement, children[i], keys, depth)
         IN  IF one.err # NoErr THEN one
             ELSE LET rest == FetchChildren(statement, children, keys, i + 1, depth)
                  IN  FetchResult(rest.err, one.results \o rest.results,
                                  one.visited \o rest.visited, one.trace \o rest.trace)

-----------------------------------------------------------------------------
(* The commands.                                                           *)

(* The two header bytes read least significant first. *)
from_le_bytes(b0, b1) == b1 * 256 + b0

from_be_bytes(b0, b1) == b0 * 256 + b1

(* A count of every catalog row, whatever its kind. *)
schema_len(sch) == Len(sch)

table_count(sch) == Cardinality({i \in 1..Len(sch) : sch[i].kind = "Table"})

(* A listing that names every catalog row, whatever its kind. *)
RECURSIVE tables_EveryKind(_, _)
tables_EveryKind(sch, i) ==
    IF i > Len(sch) THEN <<>>
    ELSE Utf8(sch[i].name) \o NL \o tables_EveryKind(sch, i + 1)

(* Database::tables: the loop over the catalog vector. *)
RECURSIVE tables(_, _)
tables(sch, i) ==
    IF i > Len(sch) THEN <<>>
    ELSE (IF sch[i].kind = "Table" THEN Utf8(sch[i].name) \o NL ELSE <<>>)
         \o tables(sch, i + 1)

(* The printing loop of execute_statement over results. *)
RECURSIVE PrintResults(_, _, _)
PrintResults(results, col_count, idx) ==
    IF idx >= Len(results) THEN <<>>
    ELSE Display(results[idx + 1])
         \o (IF (idx + 1) % col_count = 0 THEN NL ELSE BAR)
         \o PrintResults(results, col_count, idx + 1)

(* A column count that does not leave out the row-count column. *)
selected_len(selected_columns) == Len(selected_columns)

col_count(selected_columns) ==
    Len(SelectSeq(selected_columns, LAMBDA c : to_lowercase(c) # "count(*)"))

RunResult(cmd, statement, plan, err, keys, count, results, visited, trace) ==
    [cmd |-> cmd, statement |-> statement, plan |-> plan, err |-> err, keys |-> keys,
     count |-> count, results |-> results, visited |-> visited, trace |-> trace]

NoStatement == Select("", <<>>, NoCond)
NoRun == RunResult("none", NoStatement, "none", NoErr, <<>>, 0, <<>>, <<>>, <<>>)

(* The traversal part of execute_statement: plan choice and the plan. *)
FullScanPlan(statement) ==
    LET rt == get_table_rootpage(statement.table)
        sel == execute_select(statement, rt.rootpage, MaxDepth)
    IN  IF rt.err # NoErr
        THEN RunResult("select", statement, "scan", rt.err, <<>>, 0, <<>>, <<>>, <<>>)
        ELSE RunResult("select", statement, "scan", sel.err, <<>>, sel.count, sel.results,
                       sel.visited, sel.trace)

IndexPlan(statement, index_rootpage) ==
    LET probe == execute_index(index_rootpage, statement.cond.value, MaxDepth)
        rt == get_table_rootpage(statement.table)
        fetch == execute_select_with_index(statement, rt.rootpage, probe.keys, MaxDepth)
    IN  IF probe.err # NoErr
        THEN RunResult("select", statement, "index", probe.err, probe.keys, 0, <<>>, <<>>,
                       probe.trace)
        ELSE IF rt.err # NoErr
        THEN RunResult("select", statement, "index", rt.err, probe.keys, Len(probe.keys),
                       <<>>, <<>>, probe.trace)
        ELSE RunResult("select", statement, "index", fetch.err, probe.keys, Len(probe.keys),
                       fetch.results, fetch.visited, probe.trace \o fetch.trace)

(* An executor that takes the index plan for every filtered statement on a *)
(* table that has an index, whatever the indexed column.                   *)
RunSelect_AnyIndexOfTable(statement) ==
    IF ~statement.cond.has THEN FullScanPlan(statement)
    ELSE LET hits == {i \in 1..Len(schema) :
                         schema[i].kind = "Index" /\ schema[i].tbl_name = statement.table}
         IN  IF hits # {} THEN IndexPlan(statement, schema[Min(hits)].rootpage)
             ELSE FullScanPlan(statement)

RunSelect(statement) ==
    IF ~statement.cond.has THEN FullScanPlan(statement)
    ELSE LET ix == get_index_rootpage(statement.table, statement.cond.column)
         IN  IF ix.some THEN IndexPlan(statement, ix.rootpage)
             ELSE FullScanPlan(statement)

(* The output part of execute_statement. *)
SelectOutput(r) ==
    IF to_lowercase(r.statement.columns[1]) = "count(*)"
    THEN Decimal(r.count) \o NL
    ELSE PrintResults(r.results, col_count(r.statement.columns), 0)

ReadsOf(trace, psz) == [i \in 1..Len(trace) |-> <<(trace[i] - 1) * psz, psz>>]

(* page.rs parse_page, as main.rs uses it on page index 0. *)
parse_page(f, page_idx, psz) ==
    LET r == read_exact_at(f, page_idx * psz, psz)
    IN  IF r.err # NoErr THEN r
        ELSE IF page_idx = 0 /\ psz < DB_HEADER_SIZE + 8 THEN [err |-> Panic, page |-> r.page]
        ELSE IF r.page.kind \notin {"InteriorIndex", "InteriorTable", "LeafIndex", "LeafTable"}
             THEN [err |-> "Invalid page kind", page |-> r.page]
        ELSE r

is_table(cell) == cell.type.tag = "Text" /\ cell.type.s = "table"

MainTableCount(cells) == Cardinality({i \in 1..Len(cells) : is_table(cells[i])})

-----------------------------------------------------------------------------
(* The files and statements the model runs on.                             *)

Bases == {0, 40000}
Ddls == {"ipk", "plain"}
CVals == {TextA, TextB}
Chunks == {1, 2, MaxRows}
Fanouts == {2, 3}
IdxChunks == {1, MaxRows}
PageSizes == {<<2, 0>>, <<16, 0>>}

CatalogPool == {RowT("ipk"), RowI, RowU, RowJ, RowV, RowG, RowW}

RECURSIVE CatalogsOf(_, _)
CatalogsOf(pool, n) ==
    IF n = 0 THEN {<<>>}
    ELSE {<<>>} \cup {<<r>> \o c : r \in pool, c \in CatalogsOf(pool, n - 1)}

Distinct(c) == \A i, j \in 1..Len(c) : i # j => c[i] # c[j]

Statements ==
    {Select("t", cols, cond) :
        cols \in {<<"count(*)">>, <<"c">>, <<"id", "c">>, <<"c", "d">>,
                  <<"c", "count(*)">>, <<"count(*)", "c">>},
        cond \in {NoCond, Equals("c", <<97>>)}}

-----------------------------------------------------------------------------
(* Init: a file of one of two families. The query family varies the table  *)
(* B-tree, the index B-tree and whether the catalog lists the index; the   *)
(* catalog family varies the page size and the catalog rows.               *)

Idle ==
    /\ pc = "start"
    /\ page_size = 0
    /\ schema = <<>>
    /\ reads = <<>>
    /\ out = <<>>
    /\ run = NoRun

VarintIdle == vin = <<>> /\ vres = VarintResult("idle", <<>>, 0)
RecordIdle ==
    /\ rin = [ddl_cols |-> 0, id_bytes |-> <<>>, row |-> <<>>, bytes |-> <<>>]
    /\ rres = CellResult("idle", 0, <<>>)

InitQuery ==
    \E ddl \in Ddls, b \in Bases, chunk \in Chunks, fanout \in Fanouts,
       slack \in BOOLEAN, idxchunk \in IdxChunks :
        \E ids \in SUBSET ((b + 1)..(b + MaxRows)) :
            \E vals \in [ids -> CVals] :
                \E cat \in {<<RowT(ddl)>>, <<RowT(ddl), RowI>>} :
                    file = MakeFile(16, 0, cat, ddl, vals, chunk, fanout, slack, idxchunk)

InitCatalog ==
    \E ps \in PageSizes :
        \E cat \in {c \in CatalogsOf(CatalogPool, MaxCatalog) : Distinct(c)} :
            file = MakeFile(ps[1], ps[2], cat, "ipk", (1 :> TextA) @@ (2 :> TextB),
                            MaxRows, 2, FALSE, MaxRows)

Init ==
    /\ InitQuery \/ InitCatalog
    /\ Idle
    /\ VarintIdle
    /\ RecordIdle

(* Database::load_db *)
LoadDb ==
    /\ pc = "start"
    /\ LET psz == from_be_bytes(file.hdr16, file.hdr17)
           rs == read_schema(file, psz)
       IN  /\ page_size' = psz
           /\ reads' = reads \o <<<<0, DB_HEADER_SIZE>>, <<0, psz>>>>
           /\ schema' = rs.schema
           /\ pc' = IF rs.err = NoErr THEN "loaded" ELSE "failed"
           /\ run' = RunResult("load_db", NoStatement, "none", rs.err, <<>>, 0, <<>>, <<>>, <<>>)
    /\ UNCHANGED <<file, out, vin, vres, rin, rres>>

(* Database::info *)
Info ==
    /\ pc = "loaded"
    /\ out' = out \o Utf8("database page size: ") \o Decimal(page_size) \o NL
                  \o Utf8("number of tables: ") \o Decimal(table_count(schema)) \o NL
    /\ pc' = "done"
    /\ run' = RunResult("info", NoStatement, "none", NoErr, <<>>, table_count(schema),
                        <<>>, <<>>, <<>>)
    /\ UNCHANGED <<file, page_size, schema, reads, vin, vres, rin, rres>>

(* A listing that takes the rows out of the catalog vector as it goes. *)
Tables_DrainsCatalog ==
    /\ pc = "loaded"
    /\ out' = out \o tables(schema, 1)
    /\ schema' = <<>>
    /\ pc' = "done"
    /\ run' = RunResult("tables", NoStatement, "none", NoErr, <<>>, 0, <<>>, <<>>, <<>>)
    /\ UNCHANGED <<file, page_size, reads, vin, vres, rin, rres>>

(* Database::tables *)
Tables ==
    /\ pc = "loaded"
    /\ out' = out \o tables(schema, 1)
    /\ pc' = "done"
    /\ run' = RunResult("tables", NoStatement, "none", NoErr, <<>>, 0, <<>>, <<>>, <<>>)
    /\ UNCHANGED <<file, page_size, schema, reads, vin, vres, rin, rres>>

(* An executor that prints what it has gathered whether or not the         *)
(* traversal failed.                                                       *)
Execute_PrintsOnError(statement) ==
    LET r == RunSelect(statement)
    IN  /\ run' = r
        /\ reads' = reads \o ReadsOf(r.trace, page_size)
        /\ out' = out \o SelectOutput(r)
        /\ pc' = IF r.err = NoErr THEN "done" ELSE "failed"

(* Database::execute_statement on one statement. *)
Execute(statement) ==
    LET r == RunSelect(statement)
    IN  /\ run' = r
        /\ reads' = reads \o ReadsOf(r.trace, page_size)
        /\ out' = IF r.err = NoErr THEN out \o SelectOutput(r) ELSE out
        /\ pc' = IF r.err = NoErr THEN "done" ELSE "failed"

(* Database::execute_statement *)
ExecuteStatement ==
    /\ pc = "loaded"
    /\ \E statement \in Statements : Execute(statement)
    /\ UNCHANGED <<file, page_size, schema, vin, vres, rin, rres>>

(* main.rs: the .dbinfo command. *)
MainDbInfo ==
    /\ pc = "start"
    /\ LET psz == from_be_bytes(file.hdr16, file.hdr17)
           pp == parse_page(file, 0, psz)
           line1 == Utf8("database page size: ") \o Decimal(psz) \o NL
           ok == pp.err = NoErr /\ pp.page.kind = "LeafTable"
           n == MainTableCount(pp.page.cells)
       IN  /\ page_size' = psz
           /\ reads' = reads \o <<<<0, DB_HEADER_SIZE>>, <<0, psz>>>>
           /\ out' = IF ok THEN out \o line1 \o Utf8("number of tables: ") \o Decimal(n) \o NL
                     ELSE out \o line1
           /\ pc' = IF ok THEN "done" ELSE "failed"
           /\ run' = RunResult("main_dbinfo", NoStatement, "none",
                               IF pp.err # NoErr THEN pp.err
                               ELSE IF pp.page.kind = "InteriorTable" THEN Panic
                               ELSE IF pp.page.kind # "LeafTable" THEN "Invalid schema page type"
                               ELSE NoErr,
                               <<>>, IF ok THEN n ELSE 0, <<>>, <<>>, <<>>)
    /\ UNCHANGED <<file, schema, vin, vres, rin, rres>>

Next ==
    \/ LoadDb
    \/ Info
    \/ Tables
    \/ ExecuteStatement
    \/ MainDbInfo

Spec == Init /\ [][Next]_vars

-----------------------------------------------------------------------------
(* What the file holds, read off the file directly.                        *)

CatalogCells == file.pages[1].cells

(* The cells of the B-tree under a table root, by the shape of the tree. *)
RECURSIVE CellsUnder(_, _)
CellsUnder(p, fuel) ==
    IF fuel = 0 \/ p \notin DOMAIN file.pages THEN {}
    ELSE IF file.pages[p].kind = "LeafTable"
         THEN {file.pages[p].cells[i] : i \in 1..Len(file.pages[p].cells)}
    ELSE IF file.pages[p].kind = "InteriorTable"
         THEN UNION {CellsUnder(c, fuel - 1) :
                        c \in {file.pages[p].cells[i].left_child :
                                  i \in 1..Len(file.pages[p].cells)} \cup {file.pages[p].rmptr}}
    ELSE {}

TableCells == CellsUnder(TableRoot, MaxDepth)
TableRowIds == {c.row_id : c \in TableCells}
CellOf(rowid) == CHOOSE c \in TableCells : c.row_id = rowid

(* The DDL columns of the queried table, from the catalog cell of t. *)
TableDdl ==
    LET hits == {i \in 1..Len(CatalogCells) :
                    CatalogCells[i].type = CText("table") /\ CatalogCells[i].name = "t"}
    IN  CatalogCells[Min(hits)].sql.columns

(* The logical value of column pos of a stored row: the rowid for a NULL   *)
(* in the first column, the stored value otherwise.                        *)
LogicalValue(cell, pos) ==
    IF pos = 1 /\ cell.cols[1] = Null THEN Int64(cell.row_id) ELSE cell.cols[pos]

SplitRows(results, n) ==
    [k \in 1..(Len(results) \div n) |-> SubSeq(results, (k - 1) * n + 1, k * n)]

SelectDone == pc = "done" /\ run.cmd = "select"
NonCount(columns) == SelectSeq(columns, LAMBDA c : c # "count(*)")

-----------------------------------------------------------------------------
(* C1: for a table with an index on the text column c, the index plan      *)
(* (execute_index, then execute_select_with_index) yields the same         *)
(* multiset of result rows as the full scan with the per-row filter.       *)
C1_IndexPlanEqualsFullScan ==
    (SelectDone /\ run.plan = "index" /\ NonCount(run.statement.columns) # <<>>) =>
        LET n == Len(NonCount(run.statement.columns))
            scan == FullScanPlan(run.statement)
        IN  /\ scan.err = NoErr
            /\ SeqToBag(SplitRows(run.results, n)) = SeqToBag(SplitRows(scan.results, n))

(* C2: the rowid-directed descent visits the row of every rowid of the key *)
(* set exactly once, when all keys are rowids of the table.                *)
C2_DescentVisitsEveryKey ==
    (SelectDone /\ run.plan = "index"
        /\ \A i \in 1..Len(run.keys) : run.keys[i] \in TableRowIds) =>
        SeqToBag(run.visited) = SeqToBag(run.keys)

(* C3: with the select list a row count, the printed number is the number *)
(* of table rows the chosen plan visited.                                  *)
C3_CountIsRowsVisited ==
    (SelectDone /\ run.statement.columns = <<"count(*)">>) =>
        out = Decimal(Len(run.visited)) \o NL

(* C4: the full-table scan of a well-formed table B-tree, of any number of *)
(* interior levels, produces rows in strictly increasing rowid order.      *)
C4_FullScanAscending ==
    (SelectDone /\ run.plan = "scan" /\ ~run.statement.cond.has) =>
        /\ \A i, j \in 1..Len(run.visited) : i < j => run.visited[i] < run.visited[j]
        /\ {run.visited[i] : i \in 1..Len(run.visited)} = TableRowIds

C4_Witness ==
    /\ SelectDone /\ run.plan = "scan" /\ ~run.statement.cond.has
    /\ Len(run.visited) = MaxRows
    /\ Len(run.trace) >= 7
    /\ file.pages[file.pages[TableRoot].rmptr].kind = "InteriorTable"

-----------------------------------------------------------------------------
(* The text .tables is to print: the names of the catalog rows of kind     *)
(* table, one per line, in cell-pointer order.                             *)
TableNameLines ==
    Flatten([i \in 1..Len(CatalogCells) |->
                IF CatalogCells[i].type = CText("table")
                THEN Utf8(CatalogCells[i].name) \o NL ELSE <<>>])

(* .tables has ended: after Database::tables, or when load_db failed.      *)
TablesEnded ==
    \/ pc = "done" /\ run.cmd = "tables"
    \/ pc = "failed" /\ run.cmd = "load_db"

(* C5: .tables prints exactly the names of the catalog rows whose kind is  *)
(* table, one per line, in cell-pointer order, and no name of an index,    *)
(* view or trigger row.                                                    *)
C5_TablesListsTableRows == TablesEnded => out = TableNameLines

(* The same for the files whose catalog load_db accepts; nothing is        *)
(* printed for the others.                                                 *)
C5_TablesListsTableRowsWhenLoaded ==
    /\ (pc = "done" /\ run.cmd = "tables") => out = TableNameLines
    /\ (pc = "failed" /\ run.cmd = "load_db") => out = <<>>

C5_Witness ==
    /\ pc = "done" /\ run.cmd = "tables"
    /\ Len(CatalogCells) = 3
    /\ CatalogCells[1] = RowU /\ CatalogCells[2] = RowI /\ CatalogCells[3] = RowT("ipk")
    /\ out = Utf8("u") \o NL \o Utf8("t") \o NL

(* C6: the page size .dbinfo prints is the big-endian u16 of file bytes 16 *)
(* and 17, and every later page read has that length, at a multiple of it. *)
HeaderPageSize == file.hdr16 * 256 + file.hdr17

C6_PageSizeFromHeader ==
    /\ run.cmd \in {"info", "main_dbinfo"} =>
          LET line == Utf8("database page size: ") \o Decimal(HeaderPageSize) \o NL
          IN  Len(out) >= Len(line) /\ SubSeq(out, 1, Len(line)) = line
    /\ \A i \in 2..Len(reads) :
          reads[i][2] = HeaderPageSize /\ reads[i][1] % HeaderPageSize = 0

C6_Witness ==
    /\ pc = "done" /\ run.cmd = "info"
    /\ file.hdr16 = 2 /\ file.hdr17 = 0
    /\ Len(reads) = 2 /\ reads[2] = <<0, 512>>
    /\ SubSeq(out, 21, 24) = <<53, 49, 50, 10>>

(* C7: the table count .dbinfo prints is the number of catalog rows of     *)
(* kind table, which is the number of lines .tables prints; the count of   *)
(* main.rs (is_table) and Database::table_count agree on every file both   *)
(* accept.                                                                 *)
CatalogTableCount ==
    Cardinality({i \in 1..Len(CatalogCells) : CatalogCells[i].type = CText("table")})

LineCount(bytes) == Cardinality({i \in 1..Len(bytes) : bytes[i] = 10})

BothAccept ==
    /\ read_schema(file, HeaderPageSize).err = NoErr
    /\ parse_page(file, 0, HeaderPageSize).err = NoErr
    /\ parse_page(file, 0, HeaderPageSize).page.kind = "LeafTable"

C7_TableCountsAgree ==
    (pc = "done" /\ run.cmd \in {"info", "main_dbinfo"} /\ BothAccept) =>
        /\ out = Utf8("database page size: ") \o Decimal(HeaderPageSize) \o NL
                 \o Utf8("number of tables: ") \o Decimal(CatalogTableCount) \o NL
        /\ run.count = LineCount(tables(read_schema(file, HeaderPageSize).schema, 1))
        /\ run.count = MainTableCount(CatalogCells)
        /\ run.count = table_count(read_schema(file, HeaderPageSize).schema)
        /\ MainTableCount(parse_page(file, 0, HeaderPageSize).page.cells)
              = table_count(read_schema(file, HeaderPageSize).schema)

C7_Witness ==
    /\ pc = "done" /\ run.cmd = "main_dbinfo" /\ BothAccept
    /\ Len(CatalogCells) = 3
    /\ run.count = 2

(* The lines a select prints for the rows it visited: the projected       *)
(* values of a row joined by a bar and ended by a newline.                 *)
JoinBar(vals) ==
    Flatten([i \in 1..Len(vals) |-> Display(vals[i]) \o (IF i = Len(vals) THEN NL ELSE BAR)])

RowLine(rowid, columns) ==
    JoinBar([i \in 1..Len(columns) |->
                LogicalValue(CellOf(rowid), position(TableDdl, columns[i]))])

ExpectedLines(visited, columns) ==
    Flatten([k \in 1..Len(visited) |-> RowLine(visited[k], columns)])

(* The rowids of the rows of the table that the statement's condition     *)
(* matches: every row without a condition.                                 *)
MatchedRowIds(statement) ==
    {id \in TableRowIds :
        statement.cond.has =>
            LogicalValue(CellOf(id), position(TableDdl, statement.cond.column))
                = Text(statement.cond.value)}

(* C10: a SELECT with n >= 1 projected (non-count) columns and m matched   *)
(* rows prints exactly m lines, one per matched row, each the n projected  *)
(* values in select-list order joined by '|' and ended by a newline, in    *)
(* the order the plan visited the rows.                                    *)
C10_ProjectedLines ==
    (SelectDone /\ NonCount(run.statement.columns) # <<>>) =>
        /\ out = ExpectedLines(run.visited, NonCount(run.statement.columns))
        /\ SeqToBag(run.visited) = SetToBag(MatchedRowIds(run.statement))

(* Output formatting on its own: the lines printed are those of the rows   *)
(* the plan visited, for a select list whose first element is not the row  *)
(* count; when it is, only the count is printed.                           *)
C10_ProjectedLinesUnlessCountFirst ==
    /\ (SelectDone /\ run.statement.columns[1] # "count(*)") =>
          out = ExpectedLines(run.visited, NonCount(run.statement.columns))
    /\ (SelectDone /\ run.statement.columns[1] = "count(*)") =>
          out = Decimal(run.count) \o NL

(* Under the full-scan plan every projected select is printed line by line *)
(* for exactly the matched rows, unless the row count leads the list.      *)
C10_FullScanProjectedLines ==
    (SelectDone /\ run.plan = "scan" /\ run.statement.columns[1] # "count(*)") =>
        /\ out = ExpectedLines(run.visited, NonCount(run.statement.columns))
        /\ SeqToBag(run.visited) = SetToBag(MatchedRowIds(run.statement))

C10_Witness ==
    /\ SelectDone
    /\ run.statement.columns = <<"id", "c">>
    /\ Len(run.visited) = 3
    /\ LineCount(out) = 3
    /\ Cardinality({i \in 1..Len(out) : out[i] = 124}) = 3

-----------------------------------------------------------------------------
(* SpecVarint: parse_varint on byte sequences. An input is a run of up to  *)
(* nine bytes with the top bit set, then possibly one closing byte, then   *)
(* up to MaxTail bytes of whatever follows in the slice.                   *)

ContBytes == {128, 255}
CloseBytes == {0, 1, 127}
TailBytes == {0, 129}

RECURSIVE SeqsUpTo(_, _)
SeqsUpTo(S, n) ==
    IF n = 0 THEN {<<>>}
    ELSE {<<>>} \cup {<<x>> \o t : x \in S, t \in SeqsUpTo(S, n - 1)}

VarintInputs ==
    {c \o f \o t : c \in SeqsUpTo(ContBytes, 9),
                   f \in {<<>>} \cup {<<b>> : b \in CloseBytes},
                   t \in SeqsUpTo(TailBytes, MaxTail)}

FileIdle == file = MakeFile(16, 0, <<>>, "ipk", <<>>, 1, 2, FALSE, 1)

InitVarint ==
    /\ vin \in VarintInputs
    /\ vres = VarintResult("idle", <<>>, 0)
    /\ FileIdle
    /\ Idle
    /\ RecordIdle

ParseVarint ==
    /\ vres.err = "idle"
    /\ vres' = parse_varint(vin)
    /\ UNCHANGED <<file, pc, page_size, schema, reads, out, run, vin, rin, rres>>

NextVarint == ParseVarint

SpecVarint == InitVarint /\ [][NextVarint]_vars

(* The length of the varint that starts data: the first byte among the     *)
(* first eight whose top bit is clear closes it; after eight bytes with    *)
(* the top bit set the ninth byte closes it, whatever it is. 0 when data   *)
(* ends before.                                                            *)
VarintLength(data) ==
    LET closers == {i \in 1..Len(data) : i <= 8 /\ data[i] < 128}
    IN  IF closers # {} THEN Min(closers)
        ELSE IF Len(data) >= 9 THEN 9
        ELSE 0

(* The value of a varint of length L: seven bits of each of the first      *)
(* eight bytes, all eight bits of a ninth.                                 *)
VarintValue(data, L) ==
    LET body == Flatten([i \in 1..(IF L < 9 THEN L ELSE 8) |-> LowBits(data[i], 7)])
        all == IF L = 9 THEN body \o LowBits(data[9], 8) ELSE body
    IN  ZeroBits(64 - Len(all)) \o all

(* C8: on every valid varint of length L in 1..9, parse_varint returns     *)
(* consumed = L and the value formed from 7 bits of each of the first 8    *)
(* bytes and all 8 bits of a 9th byte.                                     *)
C8_VarintDecodes ==
    (vres.err # "idle" /\ VarintLength(vin) >= 1) =>
        /\ vres.err = NoErr
        /\ vres.consumed = VarintLength(vin)
        /\ vres.value = VarintValue(vin, VarintLength(vin))

(* The same for varints of at most eight bytes, where the code is right. *)
C8_ShortVarintDecodes ==
    (vres.err # "idle" /\ VarintLength(vin) \in 1..8) =>
        /\ vres.err = NoErr
        /\ vres.consumed = VarintLength(vin)
        /\ vres.value = VarintValue(vin, VarintLength(vin))

-----------------------------------------------------------------------------
(* The record decoder on its own: one leaf-table cell written the way the  *)
(* file format writes it, then decoded by the LeafTable arm of read_page.  *)

(* The bytes the format stores for one column value. *)
SerialType(v) ==
    CASE v.tag = "Null" -> 0
      [] v.tag = "Int8" -> 1
      [] v.tag = "Int16" -> 2
      [] v.tag = "Int48" -> 5
      [] v.tag = "Zero" -> 8
      [] v.tag = "One" -> 9
      [] v.tag = "Blob" -> 12 + 2 * Len(v.v)
      [] OTHER -> 13 + 2 * Len(v.v)

PayloadBytes(v) ==
    CASE v.tag \in {"Null", "Zero", "One"} -> <<>>
      [] v.tag = "Int8" -> <<(v.v[1] + 256) % 256>>
      [] v.tag = "Int16" -> <<((v.v[1] + 65536) \div 256) % 256, (v.v[1] + 65536) % 256>>
      [] v.tag = "Int48" -> [i \in 1..6 |-> BitsToNat(SubSeq(v.v, 8 * i + 9, 8 * i + 16), 0)]
      [] OTHER -> v.v

(* The slice of a page from a cell pointer on: payload length, rowid,      *)
(* header length, serial types, payloads, then whatever follows the cell.  *)
EncodeCell(id_bytes, row, tail) ==
    LET header == <<1 + Len(row)>> \o [i \in 1..Len(row) |-> SerialType(row[i])]
        payload == Flatten([i \in 1..Len(row) |-> PayloadBytes(row[i])])
    IN  <<Len(header) + Len(payload)>> \o id_bytes \o header \o payload \o tail

(* Rowid varints: 1, 128 and -1 (nine bytes, the eight low bits in the last). *)
RowIdBytes == {<<1>>, <<129, 0>>, <<255, 255, 255, 255, 255, 255, 255, 255, 255>>}

TextPayloads == SeqsUpTo({97, 98}, MaxText) \cup {<<195, 169>>}

ColumnValues ==
    {Null, Zero, One, Int8(5), Int8(-1), Rec("Blob", <<0, 255>>)}
        \cup {Text(t) : t \in TextPayloads}

RECURSIVE RowsUpTo(_)
RowsUpTo(n) ==
    IF n = 0 THEN {<<>>}
    ELSE {<<>>} \cup {<<v>> \o r : v \in ColumnValues, r \in RowsUpTo(n - 1)}

InitRecord ==
    /\ \E n \in 1..MaxCols, idb \in RowIdBytes, t \in SeqsUpTo(TailBytes, MaxTail) :
          \E row \in {r \in RowsUpTo(n) : Len(r) >= 1} :
              rin = [ddl_cols |-> n, id_bytes |-> idb, row |-> row,
                     bytes |-> EncodeCell(idb, row, t)]
    /\ rres = CellResult("idle", 0, <<>>)
    /\ FileIdle
    /\ Idle
    /\ VarintIdle

DecodeCell ==
    /\ rres.err = "idle"
    /\ rres' = DecodeLeafTableBytes(rin.bytes)
    /\ UNCHANGED <<file, pc, page_size, schema, reads, out, run, vin, vres, rin>>

NextRecord == DecodeCell

SpecRecord == InitRecord /\ [][NextRecord]_vars

(* The values the format says the cell holds, a NULL in the first column   *)
(* standing for the rowid.                                                 *)
TextSlices(row) == [i \in 1..Len(row) |-> IF row[i].tag = "Text" THEN row[i].v ELSE <<>>]

DecodedTexts(values) ==
    [i \in 1..Len(values) |-> IF values[i].tag = "Text" THEN values[i].v ELSE <<>>]

(* C9: every leaf-table cell that stores one value for each column of the  *)
(* table's DDL decodes without error to exactly as many values as the DDL  *)
(* has columns, and every decoded text value has exactly the bytes of its  *)
(* payload slice.                                                          *)
C9_DecodedCellMatchesDdl ==
    (rres.err # "idle" /\ Len(rin.row) = rin.ddl_cols) =>
        /\ rres.err = NoErr
        /\ Len(rres.values) = rin.ddl_cols
        /\ DecodedTexts(rres.values) = TextSlices(rin.row)

(* The same for the cells whose rowid varint is at most eight bytes long.  *)
C9_ShortRowidCellMatchesDdl ==
    (rres.err # "idle" /\ Len(rin.row) = rin.ddl_cols /\ Len(rin.id_bytes) <= 8) =>
        /\ rres.err = NoErr
        /\ Len(rres.values) = rin.ddl_cols
        /\ DecodedTexts(rres.values) = TextSlices(rin.row)

(* A cell decodes to one value per serial type of its record header, with  *)
(* no regard to the DDL: a cell written before a column was added to the   *)
(* table has fewer values than the DDL has columns.                        *)
C9_ValuesFollowHeader ==
    (rres.err = NoErr /\ Len(rin.id_bytes) <= 8) => Len(rres.values) = Len(rin.row)

-----------------------------------------------------------------------------
(* SpecErrors: selects on a one-leaf table whose column c holds text, NULL *)
(* or an integer, under a catalog whose DDL texts may fail to parse, with  *)
(* statements that may name a column the table does not have.             *)

MaxErrRows == 2     \* rows of the table of the error-path files

RowTBad == CatalogCell(CText("table"), "t", "t", Int8(TableRoot), NoSql)
RowIBad == CatalogCell(CText("index"), "i", "t", Int8(IndexRoot), NoSql)

ErrVals == {TextA, TextB, Null, Int8(7)}

ErrCatalogs(ddl) ==
    {<<RowT(ddl)>>, <<RowT(ddl), RowI>>, <<RowT(ddl), RowIBad>>, <<RowTBad>>}

ErrStatements ==
    {Select("t", cols, cond) :
        cols \in {<<"c">>, <<"id">>, <<"x">>, <<"count(*)">>},
        cond \in {NoCond, Equals("c", <<97>>), Equals("x", <<97>>)}}

InitErrors ==
    /\ \E ddl \in Ddls, ids \in SUBSET (1..MaxErrRows) :
          \E vals \in [ids -> ErrVals], cat \in ErrCatalogs(ddl) :
              file = MakeFile(16, 0, cat, ddl, vals, MaxErrRows, 2, FALSE, MaxErrRows)
    /\ Idle
    /\ VarintIdle
    /\ RecordIdle

(* Database::execute_statement, on the statements of the error paths. *)
ExecuteErrStatement ==
    /\ pc = "loaded"
    /\ \E statement \in ErrStatements : Execute(statement)
    /\ UNCHANGED <<file, page_size, schema, vin, vres, rin, rres>>

NextErrors ==
    \/ LoadDb
    \/ ExecuteErrStatement

SpecErrors == InitErrors /\ [][NextErrors]_vars

SelectEnded == run.cmd = "select" /\ pc \in {"done", "failed"}

(* The stored DDL texts of the queried table and of its indexes. *)
TableDdlParses ==
    \A i \in 1..Len(CatalogCells) :
        (CatalogCells[i].type = CText("table") /\ CatalogCells[i].name = "t")
            => CatalogCells[i].sql.form = "CreateTable"

IndexDdlsParse ==
    \A i \in 1..Len(CatalogCells) :
        (CatalogCells[i].type = CText("index") /\ CatalogCells[i].tbl_name = "t")
            => CatalogCells[i].sql.form = "CreateIndex"

NamesUnknownColumn(statement) ==
    \/ \E i \in 1..Len(statement.columns) :
          statement.columns[i] # "count(*)" /\ position(TableDdl, statement.columns[i]) = 0
    \/ statement.cond.has /\ position(TableDdl, statement.cond.column) = 0

(* C11: a select that names, in its select list or in its predicate, a    *)
(* column the DDL of the table does not have fails with the unknown-column *)
(* error, whatever the number of rows of the table or of matching rows.    *)
C11_UnknownColumnFails ==
    (SelectEnded /\ TableDdlParses /\ NamesUnknownColumn(run.statement)) =>
        run.err = "nonexistent column"

(* What the code does: the error is raised only when a row is projected,   *)
(* and an unknown predicate column aborts the process when a row is tested.*)
C11_UnknownColumnNeedsARow ==
    (SelectEnded /\ run.err = "nonexistent column") => Len(run.visited) >= 1

(* The stored value of the predicate column in the row of a rowid. *)
StoredAt(id, statement) == CellOf(id).cols[position(TableDdl, statement.cond.column)]

FilterCase ==
    /\ SelectEnded /\ run.plan = "scan" /\ run.statement.cond.has
    /\ TableDdlParses /\ ~NamesUnknownColumn(run.statement)

(* C12: under the full scan with predicate column = 'v' a row is matched   *)
(* iff its stored value of the column is text equal to v; a stored NULL    *)
(* excludes the row without error; a stored value that is neither text nor *)
(* NULL makes the query return an error value.                             *)
C12_FilterByTextEquality ==
    FilterCase =>
        IF \E id \in TableRowIds : StoredAt(id, run.statement).tag \notin {"Text", "Null"}
        THEN run.err \notin {NoErr, Panic}
        ELSE /\ run.err = NoErr
             /\ SeqToBag(run.visited)
                  = SetToBag({id \in TableRowIds :
                                 StoredAt(id, run.statement) = Text(run.statement.cond.value)})

(* What the code does: the comparison is made on the decoded value, in     *)
(* which a NULL of column 0 is the rowid, and a value that is neither text *)
(* nor NULL aborts the process.                                            *)
DecodedAt(id, statement) ==
    DecodeLeafTableCell(CellOf(id)).values[position(TableDdl, statement.cond.column)]

C12_FilterAbortsOnOtherValues ==
    FilterCase =>
        IF \E id \in TableRowIds : DecodedAt(id, run.statement).tag \notin {"Text", "Null"}
        THEN run.err = Panic
        ELSE /\ run.err = NoErr
             /\ SeqToBag(run.visited)
                  = SetToBag({id \in TableRowIds :
                                 DecodedAt(id, run.statement) = Text(run.statement.cond.value)})

(* The first DDL column is the INTEGER PRIMARY KEY of the table. *)
FirstColumnIsRowidAlias == TableDdl[1] = DdlColumns("ipk")[1]

DeclaredValue(cell, pos) ==
    IF pos = 1 /\ cell.cols[1] = Null /\ FirstColumnIsRowidAlias
    THEN Int64(cell.row_id)
    ELSE cell.cols[pos]

(* C13: column 0 of a row is its rowid iff its stored serial type is NULL  *)
(* and the first DDL column is the INTEGER PRIMARY KEY; a NULL stored in   *)
(* column 0 of another table is projected as NULL and is excluded, without *)
(* error, by an equality predicate on that column.                         *)
C13_RowidOnlyForPrimaryKey ==
    /\ (SelectEnded /\ TableDdlParses /\ ~run.statement.cond.has
           /\ run.statement.columns = <<TableDdl[1]>>) =>
          /\ run.err = NoErr
          /\ run.results = [k \in 1..Len(run.visited) |->
                               DeclaredValue(CellOf(run.visited[k]), 1)]
    /\ (FilterCase /\ ~FirstColumnIsRowidAlias
           /\ position(TableDdl, run.statement.cond.column) = 1
           /\ \A id \in TableRowIds : CellOf(id).cols[1].tag \in {"Text", "Null"}) =>
          run.err = NoErr

(* C14: a stored DDL text that fails to parse, of the queried table or of  *)
(* an index on it that the plan choice reads, makes the query fail with    *)
(* the parse error.                                                        *)
C14_BadDdlFailsQuery ==
    (SelectEnded /\ (~TableDdlParses \/ (run.statement.cond.has /\ ~IndexDdlsParse))) =>
        run.err = "parse error"

(* What the code does: only the DDL of the table is parsed with the error  *)
(* passed on; an index whose DDL does not parse is passed over.            *)
C14_BadTableDdlFailsQuery ==
    (SelectEnded /\ ~TableDdlParses) => run.err = "parse error"

-----------------------------------------------------------------------------
(* SpecTruncated: the record decoder on a cell whose slice ends before the *)
(* payload of its last columns does: the cell lies at the end of its page  *)
(* and its record header promises more bytes than the page has.            *)

MaxCut == 2         \* most bytes the slice of a truncated cell falls short by

TruncValues ==
    {Int8(5), Int16(300), Rec("Int48", U64(300, 16)), Rec("Blob", <<0, 255>>),
     Text(<<97>>), Text(<<97, 98>>)}

RECURSIVE TruncRows(_)
TruncRows(n) ==
    IF n = 0 THEN {<<>>}
    ELSE {<<>>} \cup {<<v>> \o r : v \in TruncValues, r \in TruncRows(n - 1)}

PayloadLen(row) == Len(Flatten([i \in 1..Len(row) |-> PayloadBytes(row[i])]))

InitTruncated ==
    /\ \E idb \in {<<1>>, <<129, 0>>}, cut \in 1..MaxCut :
          \E row \in {r \in TruncRows(MaxCols) : Len(r) >= 1 /\ PayloadLen(r) >= cut} :
              LET whole == EncodeCell(idb, row, <<>>)
              IN  rin = [ddl_cols |-> Len(row), id_bytes |-> idb, row |-> row,
                         bytes |-> SubSeq(whole, 1, Len(whole) - cut)]
    /\ rres = CellResult("idle", 0, <<>>)
    /\ FileIdle
    /\ Idle
    /\ VarintIdle

SpecTruncated == InitTruncated /\ [][NextRecord]_vars

(* The column of the row whose payload the slice ends in. *)
RECURSIVE ShortColumn(_, _, _)
ShortColumn(row, i, left) ==
    IF Len(PayloadBytes(row[i])) > left THEN i
    ELSE ShortColumn(row, i + 1, left - Len(PayloadBytes(row[i])))

PayloadLeft == Len(rin.bytes) - (1 + Len(rin.id_bytes) + 1 + Len(rin.row))

(* C15: decoding a record whose column payload extends past the end of the *)
(* byte slice returns an error value, for every serial type.               *)
C15_TruncatedIsErrorValue ==
    rres.err # "idle" => rres.err \notin {NoErr, Panic}

(* What the code does: the integers read through the byte parser return an *)
(* error value; an i48, a blob or a text that runs short aborts the        *)
(* process.                                                                *)
C15_TruncatedIntegerIsErrorValue ==
    rres.err # "idle" =>
        rres.err = IF rin.row[ShortColumn(rin.row, 1, PayloadLeft)].tag \in {"Int8", "Int16"}
                   THEN "nom" ELSE Panic

-----------------------------------------------------------------------------
(* SpecShortFile: the commands on a file that ends after one of its first  *)
(* pages, or whose header reports a page size too small for the B-tree     *)
(* header of page 1.                                                       *)

MaxKept == 6        \* most pages a truncated file keeps

SmallPageSizes == {<<0, 64>>, <<2, 0>>, <<16, 0>>}

WholeFile(ps) ==
    MakeFile(ps[1], ps[2], <<RowT("ipk"), RowI>>, "ipk",
             (40001 :> TextA) @@ (40002 :> TextA) @@ (40003 :> TextB), 1, 3, FALSE, 1)

Truncate(f, k) == [f EXCEPT !.pages = [p \in 1..k |-> f.pages[p]]]

InitShortFile ==
    /\ \E ps \in SmallPageSizes :
          \E k \in 1..Min({MaxKept, Cardinality(DOMAIN WholeFile(ps).pages)}) :
              file = Truncate(WholeFile(ps), k)
    /\ Idle
    /\ VarintIdle
    /\ RecordIdle

SpecShortFile == InitShortFile /\ [][Next]_vars

MissingPageRead == \E i \in 1..Len(run.trace) : run.trace[i] \notin DOMAIN file.pages

(* C16: a file that is truncated, or that reports a page size too small to *)
(* hold the B-tree header of page 1, makes load_db or read_page return the *)
(* I/O error value.                                                        *)
C16_ShortFileIsIoError ==
    /\ (run.cmd = "load_db" /\ HeaderPageSize < DB_HEADER_SIZE + 8) => run.err = "io"
    /\ (SelectEnded /\ MissingPageRead) => run.err = "io"

(* What the code does: a page past the end of the file is an I/O error; a  *)
(* page 1 shorter than its B-tree header aborts the process.               *)
C16_MissingPageIsIoError ==
    /\ (run.cmd = "load_db" /\ HeaderPageSize < DB_HEADER_SIZE + 8) => run.err = Panic
    /\ (SelectEnded /\ MissingPageRead) => run.err = "io"

-----------------------------------------------------------------------------
(* C17: every command, successful or failing, leaves the bytes of the file *)
(* unchanged, and leaves the catalog vector unchanged once load_db has     *)
(* built it.                                                               *)
C17_CommandsLeaveFileAndCatalog ==
    [][file' = file /\ (pc # "start" => schema' = schema)]_vars

C17_Witness ==
    /\ pc = "failed" /\ run.cmd = "select"
    /\ Len(schema) = 2
    /\ Len(reads) >= 3

-----------------------------------------------------------------------------
(* SpecProbe: the index plan on a one-leaf table of up to MaxProbeRows     *)
(* rows with an index of one or two levels on its text column.             *)

MaxProbeRows == 5   \* rows of the table of the index-probe files

ProbeStatements == {Select("t", <<"c">>, Equals("c", v)) : v \in {<<97>>, <<98>>}}

InitProbe ==
    /\ \E b \in Bases, idxchunk \in {1, 2}, ids \in SUBSET (1..MaxProbeRows) :
          \E vals \in [{b + i : i \in ids} -> CVals] :
              file = MakeFile(16, 0, <<RowT("ipk"), RowI>>, "ipk", vals,
                              MaxProbeRows, 2, FALSE, idxchunk)
    /\ Idle
    /\ VarintIdle
    /\ RecordIdle

(* Database::execute_statement, on the statements of the index probe. *)
ExecuteProbeStatement ==
    /\ pc = "loaded"
    /\ \E statement \in ProbeStatements : Execute(statement)
    /\ UNCHANGED <<file, page_size, schema, vin, vres, rin, rres>>

NextProbe ==
    \/ LoadDb
    \/ ExecuteProbeStatement

SpecProbe == InitProbe /\ [][NextProbe]_vars

ProbeEnded == SelectEnded /\ run.plan = "index"

(* The cells of the interior root of the index whose key is greater than   *)
(* the probe key and whose left child the probe went into.                 *)
LessDescents ==
    LET root == file.pages[IndexRoot]
    IN  IF root.kind # "InteriorIndex" THEN {}
        ELSE {i \in 1..Len(root.cells) :
                 /\ root.cells[i].keys[1].tag = "Text"
                 /\ StrLess(run.statement.cond.value, root.cells[i].keys[1].v)
                 /\ \E k \in 1..Len(run.trace) : run.trace[k] = root.cells[i].left_child}

(* C18: on one visit of an interior index page the probe makes at most one *)
(* descent into a left child because the probe key is less than the key of *)
(* the cell: it stops at the first such cell.                              *)
C18_ProbeStopsAtFirstGreaterKey ==
    ProbeEnded => Cardinality(LessDescents) <= 1

(* The entries of the index, of its leaf and interior pages, in page order. *)
RECURSIVE IndexEntriesUnder(_, _)
IndexEntriesUnder(p, fuel) ==
    IF fuel = 0 \/ p \notin DOMAIN file.pages THEN <<>>
    ELSE LET page == file.pages[p]
         IN  IF page.kind = "LeafIndex"
             THEN [i \in 1..Len(page.cells) |-> page.cells[i].keys]
             ELSE IF page.kind = "InteriorIndex"
             THEN Flatten([i \in 1..Len(page.cells) |->
                              IndexEntriesUnder(page.cells[i].left_child, fuel - 1)
                                  \o <<page.cells[i].keys>>])
                  \o IndexEntriesUnder(page.rmptr, fuel - 1)
             ELSE <<>>

IndexEntries == IndexEntriesUnder(IndexRoot, MaxDepth)

(* The integer a record value holds. *)
IntegerOf(r) ==
    IF r.tag = "Zero" THEN 0
    ELSE IF r.tag = "One" THEN 1
    ELSE IF r.tag = "Int48" THEN BitsToNat(r.v, 0)
    ELSE r.v[1]

EqualKeyRowids(value) ==
    LET hits == SelectSeq(IndexEntries, LAMBDA e : e[1] = Text(value))
    IN  [i \in 1..Len(hits) |-> IntegerOf(hits[i][2])]

(* C19: the rowids the index probe returns are exactly the multiset of the *)
(* rowids of the index entries, of leaf and interior pages, whose text key *)
(* equals the probe key.                                                   *)
C19_ProbeReturnsEqualKeyRowids ==
    (ProbeEnded /\ run.err = NoErr) =>
        SeqToBag(run.keys) = SeqToBag(EqualKeyRowids(run.statement.cond.value))

(* The same for the indexes all of whose rowids are stored as 24-bit       *)
(* integers.                                                               *)
C19_ProbeReturnsInt24Rowids ==
    (ProbeEnded /\ \A i \in 1..Len(IndexEntries) : IndexEntries[i][2].tag = "Int24") =>
        /\ run.err = NoErr
        /\ SeqToBag(run.keys) = SeqToBag(EqualKeyRowids(run.statement.cond.value))

IsTextInt24Pair(e) == Len(e) = 2 /\ e[1].tag = "Text" /\ e[2].tag = "Int24"

(* C20: an index record that is not a pair of a text key and a 24-bit      *)
(* rowid makes the probe fail with an error value, on a leaf page as on an *)
(* interior page.                                                          *)
C20_OtherIndexRecordFails ==
    (ProbeEnded /\ \E i \in 1..Len(IndexEntries) : ~IsTextInt24Pair(IndexEntries[i])) =>
        run.err \notin {NoErr, Panic}

(* What the code does: a leaf page passes such a record over in silence;   *)
(* the probe fails only on an interior cell whose key equals the probe key *)
(* and whose rowid is not a 24-bit integer.                                *)
C20_OnlyEqualInteriorKeyFails ==
    ProbeEnded =>
        (run.err # NoErr <=>
            /\ file.pages[IndexRoot].kind = "InteriorIndex"
            /\ \E i \in 1..Len(file.pages[IndexRoot].cells) :
                  /\ file.pages[IndexRoot].cells[i].keys[1] = Text(run.statement.cond.value)
                  /\ file.pages[IndexRoot].cells[i].keys[2].tag # "Int24")

-----------------------------------------------------------------------------
(* The rowid descent, page by page.                                        *)

InTrace(p) == \E k \in 1..Len(run.trace) : run.trace[k] = p

KeySet == {run.keys[i] : i \in 1..Len(run.keys)}

DescentDone == SelectDone /\ run.plan = "index"

(* The stored cells of the leaf table pages the descent read, in the order *)
(* it read them.                                                           *)
VisitedLeafCells ==
    Flatten([k \in 1..Len(run.trace) |->
                IF file.pages[run.trace[k]].kind = "LeafTable"
                THEN file.pages[run.trace[k]].cells ELSE <<>>])

RowIdsOf(cells) == [i \in 1..Len(cells) |-> cells[i].row_id]

(* C21: on a leaf table page the rowid descent selects exactly the cells   *)
(* whose row_id is in the key set, whatever their stored column values.    *)
C21_LeafSelectsByRowid ==
    DescentDone =>
        run.visited = RowIdsOf(SelectSeq(VisitedLeafCells, LAMBDA c : c.row_id \in KeySet))

(* The same for the tables whose rows store NULL in the first column, the  *)
(* rowid alias.                                                            *)
C21_LeafSelectsByRowidAlias ==
    (DescentDone /\ \A i \in 1..Len(VisitedLeafCells) : VisitedLeafCells[i].cols[1] = Null) =>
        run.visited = RowIdsOf(SelectSeq(VisitedLeafCells, LAMBDA c : c.row_id \in KeySet))

VisitedInteriorTables ==
    {p \in DOMAIN file.pages : InTrace(p) /\ file.pages[p].kind = "InteriorTable"}

(* The three tests of the descent on the interior table page p, read off   *)
(* the trace of pages.                                                     *)
DescentTests(p) ==
    LET c == file.pages[p].cells
        k == Len(c)
    IN  /\ InTrace(c[1].left_child) <=> \E key \in KeySet : key < c[1].row_id
        /\ \A i \in 2..k :
              InTrace(c[i].left_child) <=>
                  \E key \in KeySet : c[i - 1].row_id <= key /\ key < c[i].row_id
        /\ InTrace(file.pages[p].rmptr) <=> \E key \in KeySet : key > c[k].row_id

ChildrenOf(p) ==
    {file.pages[p].cells[i].left_child : i \in 1..Len(file.pages[p].cells)}
        \cup {file.pages[p].rmptr}

HoldsAKey(child) == \E c \in CellsUnder(child, MaxDepth) : c.row_id \in KeySet

(* C22: on an interior table page the descent goes into the first left     *)
(* child iff some key is below b_0, into the left child of cell i iff some *)
(* key is in [b_(i-1), b_i), into the right-most child iff some key is     *)
(* above the last b; and it goes into no child whose subtree holds none of *)
(* the keys.                                                               *)
C22_DescendsOnlyWhereKeysAre ==
    DescentDone =>
        \A p \in VisitedInteriorTables :
            /\ DescentTests(p)
            /\ \A child \in ChildrenOf(p) : InTrace(child) => HoldsAKey(child)

(* The three tests alone. *)
C22_DescentTestsHold ==
    DescentDone => \A p \in VisitedInteriorTables : DescentTests(p)

-----------------------------------------------------------------------------
(* SpecDamaged: files whose table or index B-tree has one damaged page: an *)
(* index page where a table page belongs, or a child pointer that leads    *)
(* back to the root of its tree.                                           *)

RECURSIVE PagesUnder(_, _, _)
PagesUnder(f, p, fuel) ==
    IF fuel = 0 \/ p \notin DOMAIN f.pages THEN {}
    ELSE IF f.pages[p].kind \in {"InteriorTable", "InteriorIndex"}
         THEN {p} \cup UNION {PagesUnder(f, c, fuel - 1) :
                                 c \in {f.pages[p].cells[i].left_child :
                                           i \in 1..Len(f.pages[p].cells)} \cup {f.pages[p].rmptr}}
    ELSE {p}

StrayIndexLeaf == Page("LeafIndex", 0, <<[keys |-> <<TextA, Int24(40001)>>]>>)

(* f with an index leaf where page p of the table B-tree was. *)
WithIndexPageAt(f, p) == [f EXCEPT !.pages[p] = StrayIndexLeaf]

(* f with the first left child, or the right-most pointer, of the interior *)
(* page p leading to root.                                                 *)
WithLeftLoop(f, p, root) == [f EXCEPT !.pages[p].cells[1].left_child = root]
WithRightLoop(f, p, root) == [f EXCEPT !.pages[p].rmptr = root]

InteriorUnder(f, root) ==
    {p \in PagesUnder(f, root, MaxDepth) :
        f.pages[p].kind \in {"InteriorTable", "InteriorIndex"}}

Damaged(f) ==
    {f}
    \cup {WithIndexPageAt(f, p) : p \in PagesUnder(f, TableRoot, MaxDepth)}
    \cup {WithLeftLoop(f, p, TableRoot) : p \in InteriorUnder(f, TableRoot)}
    \cup {WithRightLoop(f, p, TableRoot) : p \in InteriorUnder(f, TableRoot)}
    \cup {WithLeftLoop(f, p, IndexRoot) : p \in InteriorUnder(f, IndexRoot)}
    \cup {WithRightLoop(f, p, IndexRoot) : p \in InteriorUnder(f, IndexRoot)}

DamagedStatements ==
    {Select("t", cols, cond) :
        cols \in {<<"count(*)">>, <<"c">>},
        cond \in {NoCond, Equals("c", <<97>>)}}

InitDamaged ==
    /\ \E chunk \in {1, 2}, ids \in SUBSET (40001..(40000 + MaxRows)) :
          \E vals \in [ids -> CVals] :
              \E cat \in {<<RowT("ipk")>>, <<RowT("ipk"), RowI>>} :
                  file \in Damaged(MakeFile(16, 0, cat, "ipk", vals, chunk, 2, FALSE, 1))
    /\ Idle
    /\ VarintIdle
    /\ RecordIdle

(* Database::execute_statement, on the statements of the damaged files. *)
ExecuteDamagedStatement ==
    /\ pc = "loaded"
    /\ \E statement \in DamagedStatements : Execute(statement)
    /\ UNCHANGED <<file, page_size, schema, vin, vres, rin, rres>>

NextDamaged ==
    \/ LoadDb
    \/ ExecuteDamagedStatement

SpecDamaged == InitDamaged /\ [][NextDamaged]_vars

(* The rowids of the leaf cells under page p, each left child in array     *)
(* order and then the right-most child.                                    *)
RECURSIVE LeafRowIdsInOrder(_, _)
LeafRowIdsInOrder(p, fuel) ==
    IF fuel = 0 \/ p \notin DOMAIN file.pages THEN <<>>
    ELSE IF file.pages[p].kind = "LeafTable" THEN RowIdsOf(file.pages[p].cells)
    ELSE IF file.pages[p].kind = "InteriorTable"
         THEN Flatten([i \in 1..Len(file.pages[p].cells) |->
                          LeafRowIdsInOrder(file.pages[p].cells[i].left_child, fuel - 1)])
              \o LeafRowIdsInOrder(file.pages[p].rmptr, fuel - 1)
    ELSE <<>>

IndexPageReachedUnderTable ==
    \E p \in PagesUnder(file, TableRoot, MaxDepth) :
        InTrace(p) /\ file.pages[p].kind \in {"LeafIndex", "InteriorIndex"}

(* C23: the full scan visits every leaf cell under the root once, left     *)
(* children in array order and then the right-most child; when a page      *)
(* reached under the table root is an index page the full scan returns the *)
(* error of an invalid page type, and so does the rowid descent.           *)
C23_ScanOrderAndBadPageKind ==
    /\ (SelectDone /\ run.plan = "scan" /\ ~run.statement.cond.has) =>
            run.visited = LeafRowIdsInOrder(TableRoot, MaxDepth)
    /\ (SelectEnded /\ IndexPageReachedUnderTable) => run.err = "Invalid page type"

(* The same with the error required of the full scan only. *)
C23_FullScanOrderAndBadPageKind ==
    /\ (SelectDone /\ run.plan = "scan" /\ ~run.statement.cond.has) =>
            run.visited = LeafRowIdsInOrder(TableRoot, MaxDepth)
    /\ (SelectEnded /\ run.plan = "scan" /\ IndexPageReachedUnderTable) =>
            run.err = "Invalid page type"

(* What the rowid descent does on an index page: it aborts. *)
C23_DescentAbortsOnIndexPage ==
    (SelectEnded /\ run.plan = "index" /\ IndexPageReachedUnderTable) => run.err = Panic

(* A page the traversal read a second time: a child pointer led back to a  *)
(* page of the descent path.                                               *)
LoopFollowed == \E i, j \in 1..Len(run.trace) : i < j /\ run.trace[i] = run.trace[j]

(* C29: a query on a file whose child pointers lead back to a page of the  *)
(* descent path ends: it completes or returns an error value.              *)
C29_LoopedQueryEnds ==
    (SelectEnded /\ LoopFollowed) => run.err # Panic

(* What the code does: it follows the loop until the stack is used up.     *)
C29_LoopExhaustsStack ==
    (SelectEnded /\ LoopFollowed) => run.err = Panic /\ Len(run.trace) >= MaxDepth

(* A traversal in which no page is read twice ends on its own. *)
C29_TreeQueryEnds ==
    (SelectEnded /\ ~LoopFollowed /\ ~IndexPageReachedUnderTable) => run.err # Panic

(* C30: a SELECT whose traversal returns an error has printed nothing, no  *)
(* result row and no count.                                                *)
C30_NoOutputOnError ==
    (run.cmd = "select" /\ run.err # NoErr) => out = <<>>

C30_Witness ==
    /\ pc = "failed" /\ run.cmd = "select"
    /\ run.err = "Invalid page type"
    /\ Len(run.results) >= 1
    /\ Len(run.trace) >= 3
    /\ out = <<>>

-----------------------------------------------------------------------------
(* SpecPlan: catalogs of up to MaxCatalog rows over two tables and several *)
(* indexes, each index with a root page of its own.                        *)

IndexOn(name, tbl_name, columns, rootpage) ==
    CatalogCell(CText("index"), name, tbl_name, Int8(rootpage), CreateIndex(tbl_name, columns))

EmptyIndexLeaf == Page("LeafIndex", 0, <<>>)

(* The rows a catalog is drawn from, for a file whose B-trees take n pages: *)
(* pages n+1, n+2, n+3 are empty index leaves.                             *)
PlanPool(n) ==
    {RowT("ipk"), RowU, RowI,
     IndexOn("i2", "t", <<"c">>, n + 1),
     IndexOn("j", "u", <<"c">>, n + 2),
     IndexOn("k", "t", <<"id">>, n + 3),
     CatalogCell(CText("index"), "b", "t", Int8(n + 3), NoSql)}

PlanFile(catalog, vals) ==
    LET f == MakeFile(16, 0, catalog, "ipk", vals, 1, 2, FALSE, MaxRows)
    IN  [f EXCEPT !.pages = [q \in 1..(Cardinality(DOMAIN f.pages) + 3) |->
                                IF q \in DOMAIN f.pages THEN f.pages[q] ELSE EmptyIndexLeaf]]

PlanStatements ==
    {Select("t", <<"c">>, NoCond),
     Select("t", <<"c">>, Equals("c", <<97>>)),
     Select("t", <<"c">>, Equals("id", <<97>>)),
     Select("u", <<"c">>, NoCond),
     Select("u", <<"c">>, Equals("c", <<97>>))}

InitPlan ==
    /\ \E vals \in {(40001 :> TextA), (40001 :> TextA) @@ (40002 :> TextB)} :
          LET n == Cardinality(DOMAIN MakeFile(16, 0, <<>>, "ipk", vals, 1, 2, FALSE, MaxRows).pages)
          IN  \E cat \in {c \in CatalogsOf(PlanPool(n), MaxCatalog) : Distinct(c)} :
                  file = PlanFile(cat, vals)
    /\ Idle
    /\ VarintIdle
    /\ RecordIdle

(* Database::execute_statement, on the statements of the plan choice. *)
ExecutePlanStatement ==
    /\ pc = "loaded"
    /\ \E statement \in PlanStatements : Execute(statement)
    /\ UNCHANGED <<file, page_size, schema, vin, vres, rin, rres>>

NextPlan ==
    \/ LoadDb
    \/ ExecutePlanStatement

SpecPlan == InitPlan /\ [][NextPlan]_vars

(* The catalog rows of kind index on the table whose CREATE INDEX column   *)
(* list has the column, by position in the catalog.                        *)
IndexRowsFor(table, column) ==
    {i \in 1..Len(CatalogCells) :
        /\ CatalogCells[i].type = CText("index")
        /\ CatalogCells[i].tbl_name = table
        /\ CatalogCells[i].sql.form = "CreateIndex"
        /\ \E k \in 1..Len(CatalogCells[i].sql.columns) :
              CatalogCells[i].sql.columns[k] = column}

FilteredSelectEnded == SelectEnded /\ run.statement.cond.has

(* C24: find_index returns the rootpage of the first catalog row of kind   *)
(* index on the table whose column list has the column, and none iff there *)
(* is no such row: the probe starts at that page and at no other.          *)
C24_FindIndexFirstMatch ==
    FilteredSelectEnded =>
        LET rows == IndexRowsFor(run.statement.table, run.statement.cond.column)
        IN  IF rows = {} THEN run.plan # "index"
            ELSE /\ run.plan = "index"
                 /\ run.trace # <<>>
                 /\ run.trace[1] = IntegerOf(CatalogCells[Min(rows)].rootpage)

C24_Witness ==
    /\ FilteredSelectEnded /\ run.plan = "index"
    /\ Cardinality(IndexRowsFor(run.statement.table, run.statement.cond.column)) = 2
    /\ \E i \in 1..Len(CatalogCells) :
          /\ CatalogCells[i].type = CText("index")
          /\ CatalogCells[i].tbl_name # run.statement.table
          /\ i < Min(IndexRowsFor(run.statement.table, run.statement.cond.column))

(* The root page of the table of the statement, from its catalog row. *)
TableRootsOf(table) ==
    {IntegerOf(CatalogCells[i].rootpage) :
        i \in {j \in 1..Len(CatalogCells) :
                  CatalogCells[j].type = CText("table") /\ CatalogCells[j].name = table}}

TablePagesRead ==
    {run.trace[k] : k \in {j \in 1..Len(run.trace) :
                              file.pages[run.trace[j]].kind \in {"LeafTable", "InteriorTable"}}}

(* C25: the executor takes the index plan iff the statement has an         *)
(* equality condition and the catalog has an index of the table on the     *)
(* column of the condition, the full scan otherwise; the table pages it    *)
(* reads are those under the root page of the table of the statement.      *)
C25_PlanChoice ==
    SelectEnded =>
        /\ run.plan = "index" <=>
              /\ run.statement.cond.has
              /\ IndexRowsFor(run.statement.table, run.statement.cond.column) # {}
        /\ run.plan = "scan" <=>
              \/ ~run.statement.cond.has
              \/ IndexRowsFor(run.statement.table, run.statement.cond.column) = {}
        /\ \A p \in TablePagesRead :
              \E root \in TableRootsOf(run.statement.table) :
                  p \in PagesUnder(file, root, MaxDepth)

C25_Witness ==
    /\ SelectDone /\ run.plan = "scan" /\ run.statement.cond.has
    /\ run.statement.table = "t"
    /\ \E i \in 1..Len(CatalogCells) :
          CatalogCells[i].type = CText("index") /\ CatalogCells[i].tbl_name = "t"
    /\ TablePagesRead # {}

-----------------------------------------------------------------------------
(* SpecRootpage: catalogs whose rootpage column is stored with each of the *)
(* integer serial types.                                                   *)

Int32(n) == Rec("Int32", <<n>>)
Int48(n) == Rec("Int48", U64(n, 8))

(* The encodings of the page number n that the record format allows. *)
RootpageEncodings(n) ==
    {Int8(n), Int16(n), Int24(n), Int32(n), Int48(n), Int64(n)}
        \cup (IF n = 0 THEN {Zero} ELSE {})
        \cup (IF n = 1 THEN {One} ELSE {})

TableRowAt(rootpage) ==
    CatalogCell(CText("table"), "t", "t", rootpage, CreateTable("t", DdlColumns("ipk")))
ViewRowAt(rootpage) == CatalogCell(CText("view"), "v", "v", rootpage, NoSql)
OtherRowAt(rootpage) == CatalogCell(CText("table"), "u", "u", rootpage, CreateTable("u", <<"c">>))

RootpageCatalogs ==
    {<<TableRowAt(r)>> : r \in RootpageEncodings(TableRoot)}
    \cup {<<TableRowAt(r), ViewRowAt(q)>> :
             r \in RootpageEncodings(TableRoot), q \in RootpageEncodings(0)}
    \cup {<<OtherRowAt(q), TableRowAt(r)>> :
             r \in RootpageEncodings(TableRoot), q \in RootpageEncodings(OtherRoot)}

InitRootpage ==
    /\ \E cat \in RootpageCatalogs :
          \E vals \in {(40001 :> TextA), (40001 :> TextA) @@ (40002 :> TextB)} :
              file = MakeFile(16, 0, cat, "ipk", vals, 1, 2, FALSE, MaxRows)
    /\ Idle
    /\ VarintIdle
    /\ RecordIdle

SpecRootpage == InitRootpage /\ [][Next]_vars

CatalogRead == pc # "start" /\ run.cmd # "main_dbinfo"

RootpagesAsStored ==
    /\ Len(schema) = Len(CatalogCells)
    /\ \A i \in 1..Len(CatalogCells) :
          schema[i].rootpage = IntegerOf(CatalogCells[i].rootpage)

(* C26: the catalog reader accepts a row whose rootpage is stored with any *)
(* integer serial type, and the row's rootpage is that integer.            *)
C26_AnyIntegerRootpage ==
    CatalogRead => RootpagesAsStored

(* The same for the catalogs whose rootpages are all stored as 8-bit or    *)
(* 24-bit integers.                                                        *)
C26_Int8OrInt24Rootpage ==
    (CatalogRead /\ \A i \in 1..Len(CatalogCells) :
                        CatalogCells[i].rootpage.tag \in {"Int8", "Int24"}) =>
        RootpagesAsStored

(* Every other serial type makes load_db fail. *)
C26_OtherRootpageFailsLoad ==
    (CatalogRead /\ \E i \in 1..Len(CatalogCells) :
                        CatalogCells[i].rootpage.tag \notin {"Int8", "Int24"}) =>
        pc = "failed" /\ run.cmd = "load_db" /\ run.err = "Invalid schema"

-----------------------------------------------------------------------------
(* The length of what parse_varint takes, under SpecVarint.                *)

HasTerminator(data) == \E i \in 1..Len(data) : data[i] < 128

(* C27: parse_varint never consumes more than nine bytes: it returns       *)
(* consumed <= 9 or an error, and it returns an error when the input ends  *)
(* before a byte with the top bit clear.                                   *)
C27_VarintAtMostNineBytes ==
    vres.err # "idle" =>
        /\ vres.err = NoErr => vres.consumed <= 9
        /\ ~HasTerminator(vin) => vres.err # NoErr

(* What the code does: it takes up to ten bytes. *)
C27_VarintAtMostTenBytes ==
    vres.err # "idle" =>
        /\ vres.err = NoErr => vres.consumed <= 10 /\ vin[vres.consumed] < 128
        /\ ~HasTerminator(vin) => vres.err = "Varint is incomplete"

-----------------------------------------------------------------------------
(* read_page, Kind::LeafIndex and Kind::InteriorIndex arms: one cell       *)
(* decoded from the bytes of the page that start at its cell pointer.      *)

(* The match on the column type in the index arms: that of the LeafTable   *)
(* arm, but a NULL is a NULL in every position.                            *)
KeyValue(col, cell) == ColumnValue(col, cell, 1, 0)

RECURSIVE KeysLoop(_, _, _, _)
KeysLoop(col_types, cell, i, keys) ==
    IF i > Len(col_types) THEN [err |-> NoErr, keys |-> keys]
    ELSE LET c == KeyValue(col_types[i], cell)
         IN  IF c.err # NoErr THEN [err |-> c.err, keys |-> keys]
             ELSE KeysLoop(col_types, Drop(cell, c.used), i + 1, Append(keys, c.value))

KeyResult(err, left_child, keys) == [err |-> err, left_child |-> left_child, keys |-> keys]

DecodeLeafIndexBytes(cell) ==
    LET len == parse_varint(cell)
        cell1 == Drop(cell, len.consumed)
        rec_header_size == parse_varint(cell1)
        cell2 == Drop(cell1, rec_header_size.consumed)
        hdr == HeaderLoop(cell2, rec_header_size.consumed, as_usize(rec_header_size.value), <<>>)
        ks == KeysLoop(hdr.col_types, hdr.cell, 1, <<>>)
    IN  IF len.err # NoErr THEN KeyResult(len.err, 0, <<>>)
        ELSE IF rec_header_size.err # NoErr THEN KeyResult(rec_header_size.err, 0, <<>>)
        ELSE IF hdr.err # NoErr THEN KeyResult(hdr.err, 0, <<>>)
        ELSE KeyResult(ks.err, 0, ks.keys)

DecodeInteriorIndexBytes(cell) ==
    IF Len(cell) < 4 THEN KeyResult("nom", 0, <<>>)
    ELSE LET rest == DecodeLeafIndexBytes(Drop(cell, 4))
         IN  KeyResult(rest.err, BeUnsigned(SubSeq(cell, 1, 4), 0), rest.keys)

-----------------------------------------------------------------------------
(* SpecInt48: a record of a 48-bit integer and a one-byte text, as a cell  *)
(* of a leaf table page, of a leaf index page and of an interior index     *)
(* page.                                                                   *)

EdgeBytes == {0, 127, 128, 255}
InnerBytes == {0, 255}

Int48Payloads ==
    {<<a, b, c, d, e, f>> : a \in EdgeBytes, b \in InnerBytes, c \in InnerBytes,
                            d \in InnerBytes, e \in InnerBytes, f \in EdgeBytes}

(* The record: a header of three bytes (its size, serial type 5, serial    *)
(* type 15 of a text of one byte), then the six bytes and the text.        *)
Int48Record(payload, text) == <<3, 5, 15>> \o payload \o <<text>>

LeafTableCellOf(record) == <<Len(record), 7>> \o record
LeafIndexCellOf(record) == <<Len(record)>> \o record
InteriorIndexCellOf(record) == <<0, 0, 0, 9>> \o <<Len(record)>> \o record

InitInt48 ==
    /\ \E payload \in Int48Payloads, text \in {97, 98} :
          rin = [payload |-> payload, text |-> text, record |-> Int48Record(payload, text)]
    /\ rres = [err |-> "idle"]
    /\ FileIdle
    /\ Idle
    /\ VarintIdle

(* read_page on the three cells that hold the record. *)
DecodeInt48 ==
    /\ rres.err = "idle"
    /\ rres' = [err |-> "decoded",
                used |-> ColumnValue(ColumnTypeOf(5), rin.payload \o <<rin.text>>, 0, 7).used,
                leaf_table |-> DecodeLeafTableBytes(LeafTableCellOf(rin.record)),
                leaf_index |-> DecodeLeafIndexBytes(LeafIndexCellOf(rin.record)),
                interior_index |-> DecodeInteriorIndexBytes(InteriorIndexCellOf(rin.record))]
    /\ UNCHANGED <<file, pc, page_size, schema, reads, out, run, vin, vres, rin>>

NextInt48 == DecodeInt48

SpecInt48 == InitInt48 /\ [][NextInt48]_vars

(* The six bytes as 48 bits, under sixteen zero bits. *)
ZeroWidened(payload) ==
    ZeroBits(16) \o Flatten([i \in 1..6 |-> LowBits(payload[i], 8)])

Int48AsExpected(values) ==
    /\ Len(values) = 2
    /\ values[1].tag = "Int48"
    /\ values[1].v = ZeroWidened(rin.payload)
    /\ \A i \in 1..16 : values[1].v[i] = 0
    /\ values[2] = Text(<<rin.text>>)

(* C28: serial type 5 decodes its six bytes as a big-endian 48-bit value   *)
(* under two zero bytes, so the value is in 0..2^48-1 and never negative;  *)
(* the three decoders agree, and the cursor moves on by six bytes, so that *)
(* the column after it is read from the seventh byte.                      *)
C28_Int48ZeroWidened ==
    rres.err = "decoded" =>
        /\ rres.leaf_table.err = NoErr /\ Int48AsExpected(rres.leaf_table.values)
        /\ rres.leaf_index.err = NoErr /\ Int48AsExpected(rres.leaf_index.keys)
        /\ rres.interior_index.err = NoErr /\ Int48AsExpected(rres.interior_index.keys)
        /\ rres.leaf_table.values = rres.leaf_index.keys
        /\ rres.leaf_index.keys = rres.interior_index.keys
        /\ rres.used = 6

C28_Witness ==
    /\ rres.err = "decoded"
    /\ rin.payload[1] >= 128
    /\ rres.leaf_index.keys[1].v[17] = 1
    /\ rres.interior_index.left_child = 9
    /\ rres.leaf_table.row_id = 7

====
